---------------------------- MODULE Spec2Model ----------------------------
(***************************************************************************)
(* A model of libtooling/ASTExporter.h: the recursive AST encoder, its     *)
(* process-wide pointer table, its incremental source-location encoder     *)
(* and the arity tables of the four node families.                         *)
(*                                                                         *)
(* The output sink (ATDWriter) is modelled as the sequence OF of the       *)
(* primitive calls made on it.  A method that neither reads nor writes the *)
(* exporter's state is the sequence of the calls it makes, in order: calls *)
(* on OF and calls of other methods.  Expand replaces every call of such a *)
(* method by the calls that method makes.  The two methods that use the    *)
(* state, dumpPointer and dumpSourceLocation, are operators from the state *)
(* st (a record of the variables below) to the state after the call, and   *)
(* Run executes a sequence of calls from a state.  The actions are the     *)
(* public entry points.                                                    *)
(***************************************************************************)
EXTENDS Integers, Sequences, FiniteSets, TLC

VARIABLES
  OF,               \* ATDWriter OF: the primitive calls made so far in this run
  withPointers,     \* Options.withPointers
  deduplicationService, \* Options.deduplicationService != nullptr
  pointerMap,       \* std::unordered_map<const void*, int> pointerMap (global)
  pointerCounter,   \* int pointerCounter (global)
  LastLocFilename,  \* const char *LastLocFilename
  LastLocLine,      \* unsigned LastLocLine
  aborted,          \* an llvm_unreachable was executed in a build with assertions
  ptrLog,           \* history: the writePointer calls of this run, <<pointer, token>>
  locLog,           \* history: the dumpSourceLocation calls of this run
  declLog,          \* history: the dumpDecl / dumpDeclRef calls of this run
  nullLog,          \* history: the encodings written for null references in this run
  calls,            \* history: number of entry-point calls made in this run
  unreachable,      \* what llvm_unreachable does in the call being made
  lookup,           \* history: the last tuple-size lookup made as an entry point
  pending,          \* the calls still to be made by an export that runs step by step
  freshProcess      \* history: this is the first exporter constructed in its process

vars == <<OF, withPointers, deduplicationService, pointerMap, pointerCounter, LastLocFilename,
          LastLocLine, aborted, ptrLog, locLog, declLog, nullLog, calls,
          unreachable, lookup, pending, freshProcess>>

\* The encoder state as one record, threaded through the operators below.
St == [OF |-> OF, withPointers |-> withPointers,
       deduplicationService |-> deduplicationService, pointerMap |-> pointerMap,
       pointerCounter |-> pointerCounter, LastLocFilename |-> LastLocFilename,
       LastLocLine |-> LastLocLine, aborted |-> aborted, ptrLog |-> ptrLog,
       locLog |-> locLog, declLog |-> declLog, nullLog |-> nullLog,
       calls |-> calls, unreachable |-> unreachable, lookup |-> lookup,
       pending |-> pending, freshProcess |-> freshProcess]

Commit(st) ==
  /\ OF' = st.OF
  /\ withPointers' = st.withPointers
  /\ deduplicationService' = st.deduplicationService
  /\ pointerMap' = st.pointerMap
  /\ pointerCounter' = st.pointerCounter
  /\ LastLocFilename' = st.LastLocFilename
  /\ LastLocLine' = st.LastLocLine
  /\ aborted' = st.aborted
  /\ ptrLog' = st.ptrLog
  /\ locLog' = st.locLog
  /\ declLog' = st.declLog
  /\ nullLog' = st.nullLog
  /\ calls' = st.calls
  /\ unreachable' = st.unreachable
  /\ lookup' = st.lookup
  /\ pending' = st.pending
  /\ freshProcess' = st.freshProcess

\* One more entry-point call has returned.
Called(st) == [st EXCEPT !.calls = @ + 1]

----------------------------------------------------------------------------
\* Bounds of the model.

\* Entry-point calls per run in the traversal specification.
MaxCalls == 2
\* dumpSourceLocation calls per run in the location specification.
MaxLocs == 3
\* writePointer calls per run in the pointer specification.
MaxPtrCalls == 3
\* Width, in bits, of the model's `unsigned' (a scaled-down 32).
UIntBits == 3

\* Calls on OF after which an export that runs step by step is cut off.
MaxOutput == 1500
\* Characters of the qualified names given to dumpName in the sweep.
MaxNameLen == 5

UIntMax == 2^UIntBits - 1

----------------------------------------------------------------------------
\* The output sink: every primitive is one call record in OF.
\* op is the primitive, n its integer argument, s its string argument.

Ev(op, n, s) == [op |-> op, n |-> n, s |-> s]

\* The size of a scope that is opened without one.
\* What it would be if a scope opened without a size declared none.
NoSize_Empty == Len(<<>>)
NoSize == 0 - 1
\* ObjectScope(OF, size): label is the ATD record type the scope writes.
beginObject(size, label) == <<Ev("beginObject", size, label)>>
endObject == <<Ev("endObject", 0, "")>>
\* ArrayScope(OF, size); ArrayScope(OF) is written with size NoSize.
beginArray(size) == <<Ev("beginArray", size, "")>>
endArray == <<Ev("endArray", 0, "")>>
\* TupleScope(OF, size); TupleScope(OF) is written with size NoSize.
beginTuple(size) == <<Ev("beginTuple", size, "")>>
endTuple == <<Ev("endTuple", 0, "")>>
\* VariantScope(OF, tag)
beginVariant(tag) == <<Ev("beginVariant", 0, tag)>>
endVariant == <<Ev("endVariant", 0, "")>>
emitSimpleVariant(tag) == <<Ev("simpleVariant", 0, tag)>>
emitTag(name) == <<Ev("tag", 0, name)>>
emitString(str) == <<Ev("string", 0, str)>>
emitInteger(i) == <<Ev("int", i, "")>>
emitBoolean(b) == <<Ev("bool", IF b THEN 1 ELSE 0, "")>>
\* What emitFlag would write if it wrote the field whatever its value.
emitFlag_Always(name, value) == emitTag(name) \o emitBoolean(value)
\* emitFlag(name, value) writes the field only when value is true.
emitFlag(name, value) == IF value THEN emitTag(name) \o emitBoolean(TRUE) ELSE <<>>

\* 0 + b, for the C++ sums of booleans.
B(b) == IF b THEN 1 ELSE 0

\* The calls evs are made on OF.
write(st, evs) == [st EXCEPT !.OF = @ \o evs]

----------------------------------------------------------------------------
\* Pointers.  An address is a natural number; 0 is the null pointer.

NULL == 0

HexDigit == <<"0", "1", "2", "3", "4", "5", "6", "7",
              "8", "9", "a", "b", "c", "d", "e", "f">>

RECURSIVE Hex(_)
Hex(n) == IF n < 16 THEN HexDigit[n + 1]
          ELSE Hex(n \div 16) \o HexDigit[(n % 16) + 1]

\* snprintf(str, 20, "%p", Ptr)
FormatP(Ptr) == IF Ptr = NULL THEN "(nil)" ELSE "0x" \o Hex(Ptr)
\* What "%d" would give if only the last bit of the counter were printed.
FormatD_LastBit(i) == ToString(i % 2)
\* snprintf(str, 20, "%d", i)
FormatD(i) == ToString(i)

\* What writePointer would do if it never found Ptr in pointerMap.
writePointer_NoFind(st, wp, Ptr) ==
  IF wp
  THEN LET s1 == write(st, emitString(FormatP(Ptr)))
       IN [s1 EXCEPT !.ptrLog = Append(@, <<Ptr, FormatP(Ptr)>>)]
  ELSE LET tok == FormatD(st.pointerCounter)
           s1 == [st EXCEPT !.pointerMap =
                              [p \in DOMAIN @ \cup {Ptr} |-> IF p = Ptr
                                                            THEN st.pointerCounter
                                                            ELSE @[p]],
                            !.pointerCounter = @ + 1]
           s2 == write(s1, emitString(tok))
       IN [s2 EXCEPT !.ptrLog = Append(@, <<Ptr, tok>>)]

\* writePointer(OF, withPointers, Ptr)
writePointer(st, wp, Ptr) ==
  IF wp
  THEN LET s1 == write(st, emitString(FormatP(Ptr)))
       IN [s1 EXCEPT !.ptrLog = Append(@, <<Ptr, FormatP(Ptr)>>)]
  ELSE LET s1 == IF Ptr \notin DOMAIN st.pointerMap
                 THEN [st EXCEPT !.pointerMap = @ @@ (Ptr :> st.pointerCounter),
                                 !.pointerCounter = @ + 1]
                 ELSE st
           tok == FormatD(s1.pointerMap[Ptr])
           s2 == write(s1, emitString(tok))
       IN [s2 EXCEPT !.ptrLog = Append(@, <<Ptr, tok>>)]

\* What dumpPointer would do if it never used the table.
dumpPointer_Raw(st, Ptr) == writePointer(st, TRUE, Ptr)
\* ASTExporter::dumpPointer
dumpPointer(st, Ptr) == writePointer(st, st.withPointers, Ptr)

\* A call dumpPointer(Ptr) made by a method.
call_dumpPointer(Ptr) == <<[op |-> "dumpPointer", n |-> Ptr, s |-> ""]>>

----------------------------------------------------------------------------
\* Source locations.  A location is what SM.getPresumedLoc gives for it:
\* invalid, or a file name, a line and a column.

FileNames == {"", "a.c", "./a.c"}
Lines == {1, 2, UIntMax}
Columns == {1, 2}

InvalidLoc == [valid |-> FALSE, file |-> "", line |-> 0, col |-> 0]
Loc(f, l, c) == [valid |-> TRUE, file |-> f, line |-> l, col |-> c]
Locs == {InvalidLoc} \cup {Loc(f, l, c) : f \in FileNames, l \in Lines, c \in Columns}

\* Options.normalizeSourcePath: the path as the output names it.
normalizeSourcePath(path) == IF path = "./a.c" THEN "a.c" ELSE path

\* What strcmp would give if it compared the addresses of two buffers.
strcmp_Addresses(s1, s2) == 1
\* strcmp(s1, s2): 0 when the strings are equal; the sign is not modelled.
strcmp(s1, s2) == IF s1 = s2 THEN 0 ELSE 1

\* What the exporter would remember if a call left the state as it found it.
rememberLoc_Restored(st, PLoc) == st
\* The last two statements of dumpSourceLocation:
\* LastLocFilename = PLoc.getFilename(); LastLocLine = PLoc.getLine();
rememberLoc(st, PLoc) ==
  [st EXCEPT !.LastLocFilename = PLoc.file, !.LastLocLine = PLoc.line]

\* What the early return would do if it forgot the last position as well.
returnInvalid_Forgetful(st) ==
  [write(st, beginObject(0, "source_location") \o endObject)
     EXCEPT !.LastLocFilename = "", !.LastLocLine = UIntMax]
\* if (PLoc.isInvalid()) { ObjectScope Scope(OF, 0); return; }
returnInvalid(st) == write(st, beginObject(0, "source_location") \o endObject)

\* ASTExporter::dumpSourceLocation
dumpSourceLocation(st, PLoc) ==
  LET from == Len(st.OF)
      s1 == IF ~PLoc.valid
            THEN returnInvalid(st)
            ELSE IF strcmp(PLoc.file, st.LastLocFilename) # 0
            THEN write(st, beginObject(3, "source_location")
                           \o emitTag("file")
                           \o emitString(normalizeSourcePath(PLoc.file))
                           \o emitTag("line") \o emitInteger(PLoc.line)
                           \o emitTag("column") \o emitInteger(PLoc.col)
                           \o endObject)
            ELSE IF PLoc.line # st.LastLocLine
            THEN write(st, beginObject(2, "source_location")
                           \o emitTag("line") \o emitInteger(PLoc.line)
                           \o emitTag("column") \o emitInteger(PLoc.col)
                           \o endObject)
            ELSE write(st, beginObject(1, "source_location")
                           \o emitTag("column") \o emitInteger(PLoc.col)
                           \o endObject)
      s2 == IF PLoc.valid THEN rememberLoc(s1, PLoc) ELSE s1
  IN [s2 EXCEPT !.locLog = Append(@, [loc |-> PLoc, from |-> from + 1,
                                      to |-> Len(s2.OF),
                                      file |-> st.LastLocFilename,
                                      line |-> st.LastLocLine])]

\* A call dumpSourceLocation(Loc) made by a method.
call_dumpSourceLocation(PLoc) ==
  <<[op |-> "dumpSourceLocation", n |-> 0, s |-> "", loc |-> PLoc]>>

\* ASTExporter::dumpSourceRange; a range is <<begin, end>>.
dumpSourceRange(R) ==
  beginTuple(2) \o call_dumpSourceLocation(R[1]) \o call_dumpSourceLocation(R[2])
  \o endTuple

----------------------------------------------------------------------------
\* The node tables of clang that the macros of the exporter expand over.

\* f @@ [k \in kids |-> base]: the nodes `kids' derive from `base'.
Derive(base, kids) == [k \in kids |-> base]

\* DeclNodes.inc: DECL(DERIVED, BASE), by the names used in DERIVED##Decl.
\* The root is "" (class Decl); DeclContext is not a node of the table.
DeclBase ==
  Derive("", {"TranslationUnit", "Named", "LinkageSpec", "ObjCPropertyImpl",
              "FileScopeAsm", "AccessSpec", "Friend", "FriendTemplate",
              "StaticAssert", "Block", "Captured",
              "ClassScopeFunctionSpecialization", "Import",
              "OMPThreadPrivate", "Empty"})
  @@ Derive("Named", {"Namespace", "UsingDirective", "NamespaceAlias", "Label",
              "Type", "Value", "Template", "Using", "UsingShadow",
              "ObjCMethod", "ObjCContainer", "ObjCProperty",
              "ObjCCompatibleAlias"})
  @@ Derive("Type", {"TypedefName", "UnresolvedUsingTypename", "Tag",
              "TemplateTypeParm"})
  @@ Derive("TypedefName", {"Typedef", "TypeAlias"})
  @@ Derive("Tag", {"Enum", "Record"})
  @@ Derive("Record", {"CXXRecord"})
  @@ Derive("CXXRecord", {"ClassTemplateSpecialization"})
  @@ Derive("ClassTemplateSpecialization", {"ClassTemplatePartialSpecialization"})
  @@ Derive("Value", {"EnumConstant", "UnresolvedUsingValue", "IndirectField",
              "Declarator"})
  @@ Derive("Declarator", {"Field", "MSProperty", "Function", "Var",
              "NonTypeTemplateParm"})
  @@ Derive("Field", {"ObjCIvar", "ObjCAtDefsField"})
  @@ Derive("Function", {"CXXMethod"})
  @@ Derive("CXXMethod", {"CXXConstructor", "CXXDestructor", "CXXConversion"})
  @@ Derive("Var", {"VarTemplateSpecialization", "ImplicitParam", "ParmVar"})
  @@ Derive("VarTemplateSpecialization", {"VarTemplatePartialSpecialization"})
  @@ Derive("Template", {"RedeclarableTemplate", "TemplateTemplateParm"})
  @@ Derive("RedeclarableTemplate", {"FunctionTemplate", "ClassTemplate",
              "VarTemplate", "TypeAliasTemplate"})
  @@ Derive("ObjCContainer", {"ObjCCategory", "ObjCProtocol", "ObjCInterface",
              "ObjCImpl"})
  @@ Derive("ObjCImpl", {"ObjCCategoryImpl", "ObjCImplementation"})

\* ABSTRACT_DECL entries of DeclNodes.inc.
AbstractDecls == {"Named", "Type", "TypedefName", "Tag", "Value", "Declarator",
                  "Template", "RedeclarableTemplate", "ObjCContainer", "ObjCImpl"}

\* The values of Decl::Kind.
DeclKinds == DOMAIN DeclBase \ AbstractDecls

RECURSIVE DeclIsA(_, _)
\* isa<base##Decl>(D) for a declaration of kind k.
DeclIsA(k, base) ==
  IF k = base THEN TRUE
  ELSE IF k = "" THEN FALSE
  ELSE DeclIsA(DeclBase[k], base)

\* StmtNodes.inc: STMT(CLASS, PARENT), by class name.  The root is "Stmt".
StmtBase ==
  Derive("Stmt", {"NullStmt", "CompoundStmt", "LabelStmt", "AttributedStmt",
              "IfStmt", "SwitchStmt", "WhileStmt", "DoStmt", "ForStmt",
              "GotoStmt", "IndirectGotoStmt", "ContinueStmt", "BreakStmt",
              "ReturnStmt", "DeclStmt", "SwitchCase", "CapturedStmt",
              "AsmStmt", "ObjCAtTryStmt", "ObjCAtCatchStmt",
              "ObjCAtFinallyStmt", "ObjCAtThrowStmt",
              "ObjCAtSynchronizedStmt", "ObjCForCollectionStmt",
              "ObjCAutoreleasePoolStmt", "CXXCatchStmt", "CXXTryStmt",
              "CXXForRangeStmt", "SEHTryStmt", "SEHExceptStmt",
              "SEHFinallyStmt", "SEHLeaveStmt", "MSDependentExistsStmt",
              "OMPExecutableDirective", "Expr"})
  @@ Derive("SwitchCase", {"CaseStmt", "DefaultStmt"})
  @@ Derive("AsmStmt", {"GCCAsmStmt", "MSAsmStmt"})
  @@ Derive("OMPExecutableDirective", {"OMPParallelDirective", "OMPLoopDirective"})
  @@ Derive("OMPLoopDirective", {"OMPForDirective", "OMPSimdDirective"})
  @@ Derive("Expr", {"PredefinedExpr", "DeclRefExpr", "IntegerLiteral",
              "FloatingLiteral", "ImaginaryLiteral", "StringLiteral",
              "CharacterLiteral", "ParenExpr", "UnaryOperator",
              "OffsetOfExpr", "UnaryExprOrTypeTraitExpr",
              "ArraySubscriptExpr", "CallExpr", "MemberExpr", "CastExpr",
              "BinaryOperator", "AbstractConditionalOperator",
              "CompoundLiteralExpr", "ExtVectorElementExpr", "InitListExpr",
              "DesignatedInitExpr", "ImplicitValueInitExpr", "ParenListExpr",
              "VAArgExpr", "GenericSelectionExpr", "PseudoObjectExpr",
              "AtomicExpr", "AddrLabelExpr", "StmtExpr", "ChooseExpr",
              "GNUNullExpr", "CXXTypeidExpr", "MSPropertyRefExpr",
              "CXXUuidofExpr", "CXXBoolLiteralExpr", "CXXNullPtrLiteralExpr",
              "CXXThisExpr", "CXXThrowExpr", "CXXDefaultArgExpr",
              "CXXDefaultInitExpr", "CXXScalarValueInitExpr",
              "CXXStdInitializerListExpr", "CXXNewExpr", "CXXDeleteExpr",
              "CXXPseudoDestructorExpr", "TypeTraitExpr",
              "ArrayTypeTraitExpr", "ExpressionTraitExpr",
              "DependentScopeDeclRefExpr", "CXXConstructExpr",
              "CXXBindTemporaryExpr", "ExprWithCleanups",
              "CXXUnresolvedConstructExpr", "CXXDependentScopeMemberExpr",
              "OverloadExpr", "CXXNoexceptExpr", "PackExpansionExpr",
              "SizeOfPackExpr", "SubstNonTypeTemplateParmExpr",
              "SubstNonTypeTemplateParmPackExpr", "FunctionParmPackExpr",
              "MaterializeTemporaryExpr", "LambdaExpr", "CXXFoldExpr",
              "ObjCStringLiteral", "ObjCBoxedExpr", "ObjCArrayLiteral",
              "ObjCDictionaryLiteral", "ObjCEncodeExpr", "ObjCMessageExpr",
              "ObjCSelectorExpr", "ObjCProtocolExpr", "ObjCIvarRefExpr",
              "ObjCPropertyRefExpr", "ObjCIsaExpr",
              "ObjCIndirectCopyRestoreExpr", "ObjCBoolLiteralExpr",
              "ObjCSubscriptRefExpr", "ShuffleVectorExpr",
              "ConvertVectorExpr", "BlockExpr", "OpaqueValueExpr",
              "TypoExpr", "AsTypeExpr"})
  @@ Derive("CallExpr", {"CXXOperatorCallExpr", "CXXMemberCallExpr",
              "UserDefinedLiteral", "CUDAKernelCallExpr"})
  @@ Derive("CastExpr", {"ImplicitCastExpr", "ExplicitCastExpr"})
  @@ Derive("ExplicitCastExpr", {"CStyleCastExpr", "CXXFunctionalCastExpr",
              "CXXNamedCastExpr", "ObjCBridgedCastExpr"})
  @@ Derive("CXXNamedCastExpr", {"CXXStaticCastExpr", "CXXDynamicCastExpr",
              "CXXReinterpretCastExpr", "CXXConstCastExpr"})
  @@ Derive("BinaryOperator", {"CompoundAssignOperator"})
  @@ Derive("AbstractConditionalOperator", {"ConditionalOperator",
              "BinaryConditionalOperator"})
  @@ Derive("CXXConstructExpr", {"CXXTemporaryObjectExpr"})
  @@ Derive("OverloadExpr", {"UnresolvedLookupExpr", "UnresolvedMemberExpr"})

\* ABSTRACT_STMT entries of StmtNodes.inc.
AbstractStmts == {"SwitchCase", "AsmStmt", "OMPExecutableDirective",
                  "OMPLoopDirective", "Expr", "CastExpr", "ExplicitCastExpr",
                  "CXXNamedCastExpr", "AbstractConditionalOperator",
                  "OverloadExpr"}

\* The values of Stmt::StmtClass other than NoStmtClass.
StmtClasses == DOMAIN StmtBase \ AbstractStmts

RECURSIVE StmtIsA(_, _)
StmtIsA(c, base) ==
  IF c = base THEN TRUE
  ELSE IF c = "Stmt" THEN FALSE
  ELSE StmtIsA(StmtBase[c], base)

----------------------------------------------------------------------------
\* The AST the exporter reads.  A node is a record of what the exporter asks
\* the clang node for; the boolean getters are the members of `flags', named
\* after the local variables of the visitors.  Child nodes are held by
\* address and looked up with Decl, Stmt, Comment and Type below.

NoRange == <<InvalidLoc, InvalidLoc>>

\* What clang/AST/AttrDump.inc does for an attribute is a sequence of prints:
\* of a string that it streams to OS, or of a sub-node of the attribute that
\* it hands to dumpBareDeclRef, dumpStmt or dumpType.
Streamed(str) == [op |-> "<<", str |-> str, node |-> NULL]
SubNode(op, node) == [op |-> op, str |-> "", node |-> node]

NoDecl ==
  [ptr |-> NULL, kind |-> "Empty", flags |-> {}, range |-> NoRange,
   name |-> "", qualName |-> <<>>, type |-> NULL, typeForDecl |-> NULL,
   parent |-> NULL, module |-> "", attrs |-> <<>>, comment |-> NULL,
   members |-> <<>>, params |-> <<>>, protoDecls |-> <<>>, inits |-> <<>>,
   body |-> NULL, init |-> NULL, bitWidth |-> NULL, chain |-> <<>>,
   ref |-> NULL, ref2 |-> NULL, locs |-> NoRange, nns |-> <<>>,
   bases |-> <<>>, captures |-> <<>>, str |-> "", access |-> "None",
   control |-> "None", propertyAttrs |-> <<>>, protocols |-> <<>>,
   primary |-> NULL, lookups |-> <<>>, previous |-> NULL, first |-> NULL]

NoStmt ==
  [ptr |-> NULL, class |-> "NullStmt", flags |-> {}, range |-> NoRange,
   children |-> <<>>, decls |-> <<>>, decl |-> NULL, ref |-> NULL,
   type |-> NULL, type2 |-> NULL, str |-> "", int |-> 0, op |-> "",
   bases |-> <<>>, attrs |-> <<>>, nns |-> <<>>, ref2 |-> NULL,
   valueKind |-> "RValue", objectKind |-> "Ordinary",
   name |-> [kind |-> "Identifier", name |-> ""], temp |-> NULL,
   selector |-> "", receiverKind |-> "Instance", receiver |-> NULL,
   privateMethod |-> NULL, method |-> NULL, sub |-> NULL,
   arraySize |-> NULL, initializer |-> NULL, getter |-> "", setter |-> ""]

NoComment ==
  [ptr |-> NULL, kind |-> "NoCommentKind", range |-> NoRange,
   children |-> <<>>, text |-> ""]

NoType ==
  [ptr |-> NULL, class |-> "None", raw |-> "NULL TYPE", desugared |-> NULL,
   child |-> NULL, decl |-> NULL, params |-> <<>>, int |-> 0,
   kind |-> "Void", protocols |-> <<>>]

\* The sentinels the constructor allocates.
NullPtrDecl == [NoDecl EXCEPT !.ptr = 13, !.kind = "Empty"]
NullPtrStmt == [NoStmt EXCEPT !.ptr = 29, !.class = "NullStmt"]
NullPtrComment == [NoComment EXCEPT !.ptr = 43, !.kind = "NoCommentKind"]

L(l, c) == Loc("a.c", l, c)

\* The translation unit of the traversal specification:
\*    namespace N { /** t */ __attribute__((unused)) int f(int x)
\*                           { int v = 1; return x; } }
\*    void (^b)(int) = ^(int y) { b; };
\*    typedef int T;
\*    namespace N { }
\*    extern int e;       (in a file that the deduplication service excludes)
\*    int w = e;
\* a second translation unit,
\*    /** ? */ int u;
\* whose comment holds a node of a kind that Comment::CommentKind does not
\* list, and a statement list of three statements on line 3, the first of them
\* with an operand spelled in a macro that line 1 defines:
\*    #define ONE 1
\*    { (ONE); ; ; }
TheDecls ==
  (1 :> [NoDecl EXCEPT !.ptr = 1, !.kind = "TranslationUnit",
                       !.members = <<2, 7, 10, 11, 14, 15>>])
  @@ (2 :> [NoDecl EXCEPT !.ptr = 2, !.kind = "Namespace", !.name = "N",
                       !.qualName = <<"N">>, !.range = <<L(1, 1), L(2, 2)>>,
                       !.members = <<3>>, !.primary = 2,
                       !.lookups = <<[name |-> "f", refs |-> <<3>>]>>])
  @@ (3 :> [NoDecl EXCEPT !.ptr = 3, !.kind = "Function", !.name = "f",
                       !.qualName = <<"N", ":", ":", "f">>, !.type = 33,
                       !.range = <<L(1, 2), L(2, 1)>>,
                       !.flags = {"IsDUsed", "HasDeclarationBody"},
                       !.params = <<4>>, !.body = 20, !.comment = 40,
                       !.attrs = <<[ptr |-> 50, kind |-> "Unused",
                                    range |-> <<L(1, 2), L(1, 2)>>,
                                    dump |-> <<>>, flags |-> {}]>>])
  @@ (4 :> [NoDecl EXCEPT !.ptr = 4, !.kind = "ParmVar", !.name = "x",
                       !.qualName = <<"x">>, !.type = 30,
                       !.range = <<L(1, 2), L(1, 2)>>,
                       !.flags = {"IsDUsed", "IsDReferenced"}])
  @@ (5 :> [NoDecl EXCEPT !.ptr = 5, !.kind = "Var", !.name = "v",
                       !.qualName = <<"v">>, !.type = 32,
                       !.range = <<L(2, 1), L(2, 1)>>,
                       !.flags = {"HasInit"}, !.init = 26])
  @@ (7 :> [NoDecl EXCEPT !.ptr = 7, !.kind = "Var", !.name = "b",
                       !.qualName = <<"b">>, !.type = 31,
                       !.range = <<L(7, 1), L(7, 2)>>,
                       !.flags = {"HasInit"}, !.init = 27])
  @@ (8 :> [NoDecl EXCEPT !.ptr = 8, !.kind = "Block",
                       !.range = <<L(7, 1), L(7, 2)>>,
                       !.members = <<9>>, !.params = <<9>>, !.body = 28])
  @@ (9 :> [NoDecl EXCEPT !.ptr = 9, !.kind = "ParmVar", !.name = "y",
                       !.qualName = <<"y">>, !.type = 30,
                       !.flags = {"IsHidden"},
                       !.range = <<L(7, 2), L(7, 2)>>])
  @@ (10 :> [NoDecl EXCEPT !.ptr = 10, !.kind = "Typedef", !.name = "T",
                       !.qualName = <<"T">>, !.typeForDecl = 32,
                       !.range = <<Loc("./a.c", 7, 1), Loc("./a.c", 7, 2)>>])
  @@ (11 :> [NoDecl EXCEPT !.ptr = 11, !.kind = "Namespace", !.name = "N",
                       !.qualName = <<"N">>, !.ref = 2, !.primary = 2,
                       !.previous = 2,
                       !.flags = {"HasExternalVisibleStorage"},
                       !.range = <<L(UIntMax, 1), L(UIntMax, 2)>>])
  @@ (12 :> [NoDecl EXCEPT !.ptr = 12, !.kind = "CXXRecord",
                       !.qualName = <<>>, !.typeForDecl = NULL,
                       !.range = <<L(7, 1), L(7, 2)>>,
                       !.flags = {"IsDImplicit", "IsCompleteDefinition"}])
  @@ (13 :> NullPtrDecl)
  @@ (14 :> [NoDecl EXCEPT !.ptr = 14, !.kind = "Var", !.name = "e",
                       !.qualName = <<"e">>, !.type = 30,
                       !.range = <<Loc("h.h", 1, 1), Loc("h.h", 1, 2)>>,
                       !.flags = {"HasStorageClass", "IsDUsed", "IsExcluded"}])
  @@ (15 :> [NoDecl EXCEPT !.ptr = 15, !.kind = "Var", !.name = "w",
                       !.qualName = <<"w">>, !.type = 30,
                       !.range = <<L(7, 1), L(7, 2)>>,
                       !.flags = {"HasInit"}, !.init = 25])
  @@ (16 :> [NoDecl EXCEPT !.ptr = 16, !.kind = "TranslationUnit",
                       !.members = <<17>>])
  @@ (17 :> [NoDecl EXCEPT !.ptr = 17, !.kind = "Var", !.name = "u",
                       !.qualName = <<"u">>, !.type = 30,
                       !.range = <<L(1, 1), L(1, 2)>>, !.comment = 44])

TheStmts ==
  (20 :> [NoStmt EXCEPT !.ptr = 20, !.class = "CompoundStmt",
                        !.range = <<L(1, 2), L(2, 2)>>, !.children = <<21, 22>>])
  @@ (21 :> [NoStmt EXCEPT !.ptr = 21, !.class = "DeclStmt",
                        !.range = <<L(2, 1), L(2, 1)>>, !.children = <<26>>,
                        !.decls = <<5>>])
  @@ (22 :> [NoStmt EXCEPT !.ptr = 22, !.class = "ReturnStmt",
                        !.range = <<L(2, 1), L(2, 2)>>, !.children = <<23>>])
  @@ (23 :> [NoStmt EXCEPT !.ptr = 23, !.class = "ImplicitCastExpr",
                        !.range = <<L(2, 2), L(2, 2)>>, !.children = <<24>>,
                        !.type = 30, !.str = "LValueToRValue"])
  @@ (24 :> [NoStmt EXCEPT !.ptr = 24, !.class = "DeclRefExpr",
                        !.range = <<L(2, 2), L(2, 2)>>, !.type = 30,
                        !.flags = {"HasNonDefaultValueKind"}, !.ref = 4])
  @@ (25 :> [NoStmt EXCEPT !.ptr = 25, !.class = "DeclRefExpr",
                        !.range = <<L(7, 2), L(7, 2)>>, !.type = 30,
                        !.flags = {"HasNonDefaultValueKind"}, !.ref = 14])
  @@ (26 :> [NoStmt EXCEPT !.ptr = 26, !.class = "IntegerLiteral",
                        !.range = <<L(2, 1), L(2, 1)>>, !.type = 30,
                        !.str = "1"])
  @@ (27 :> [NoStmt EXCEPT !.ptr = 27, !.class = "BlockExpr",
                        !.range = <<L(7, 1), L(7, 2)>>, !.type = 31,
                        !.decl = 8])
  @@ (28 :> [NoStmt EXCEPT !.ptr = 28, !.class = "CompoundStmt",
                        !.range = <<L(7, 2), L(7, 2)>>, !.children = <<56>>])
  @@ (29 :> NullPtrStmt)
  @@ (56 :> [NoStmt EXCEPT !.ptr = 56, !.class = "DeclRefExpr",
                        !.range = <<L(7, 2), L(7, 2)>>, !.type = 31,
                        !.flags = {"HasNonDefaultValueKind"}, !.ref = 7])
  @@ (51 :> [NoStmt EXCEPT !.ptr = 51, !.class = "CompoundStmt",
                        !.range = <<L(3, 1), L(3, 9)>>,
                        !.children = <<52, 54, 55>>])
  @@ (52 :> [NoStmt EXCEPT !.ptr = 52, !.class = "ParenExpr",
                        !.range = <<L(3, 2), L(3, 4)>>, !.type = 30,
                        !.children = <<53>>])
  @@ (53 :> [NoStmt EXCEPT !.ptr = 53, !.class = "IntegerLiteral",
                        !.range = <<L(1, 5), L(1, 5)>>, !.type = 30,
                        !.str = "1"])
  @@ (54 :> [NoStmt EXCEPT !.ptr = 54, !.class = "NullStmt",
                        !.range = <<L(3, 6), L(3, 6)>>])
  @@ (55 :> [NoStmt EXCEPT !.ptr = 55, !.class = "NullStmt",
                        !.range = <<L(3, 7), L(3, 7)>>])

TheComments ==
  (40 :> [NoComment EXCEPT !.ptr = 40, !.kind = "FullComment",
                           !.range = <<L(1, 1), L(1, 1)>>, !.children = <<41>>])
  @@ (41 :> [NoComment EXCEPT !.ptr = 41, !.kind = "ParagraphComment",
                           !.range = <<L(1, 1), L(1, 1)>>, !.children = <<42>>])
  @@ (42 :> [NoComment EXCEPT !.ptr = 42, !.kind = "TextComment",
                           !.range = <<L(1, 1), L(1, 1)>>, !.text = " t "])
  @@ (43 :> NullPtrComment)
  @@ (44 :> [NoComment EXCEPT !.ptr = 44, !.kind = "FullComment",
                           !.range = <<L(1, 1), L(1, 1)>>, !.children = <<45>>])
  @@ (45 :> [NoComment EXCEPT !.ptr = 45, !.kind = "NoCommentKind",
                           !.range = <<L(1, 1), L(1, 1)>>])

TheTypes ==
  (30 :> [NoType EXCEPT !.ptr = 30, !.class = "Builtin", !.raw = "int",
                        !.desugared = 30])
  @@ (31 :> [NoType EXCEPT !.ptr = 31, !.class = "BlockPointer",
                        !.raw = "void (^)(int)", !.desugared = 31, !.child = 33])
  @@ (32 :> [NoType EXCEPT !.ptr = 32, !.class = "Typedef", !.raw = "T",
                        !.desugared = 30, !.decl = 10])
  @@ (33 :> [NoType EXCEPT !.ptr = 33, !.class = "FunctionProto",
                        !.raw = "int (int)", !.desugared = 33, !.child = 30,
                        !.params = <<30>>])

\* Attributes with parameters:
\*    __attribute__((annotate("a")))     a string
\*    __attribute__((cleanup(f)))        the function f
\*    alignas(1)                         the literal of statement 53
\*    alignas(T)                         the type T
TheAttrs ==
  (70 :> [ptr |-> 70, kind |-> "Annotate", range |-> <<L(1, 2), L(1, 2)>>,
          dump |-> <<Streamed("\"a\"")>>, flags |-> {}])
  @@ (71 :> [ptr |-> 71, kind |-> "Cleanup", range |-> <<L(1, 2), L(1, 2)>>,
             dump |-> <<SubNode("dumpBareDeclRef", 3)>>, flags |-> {}])
  @@ (72 :> [ptr |-> 72, kind |-> "Aligned", range |-> <<L(1, 2), L(1, 2)>>,
             dump |-> <<Streamed("alignas"), SubNode("dumpStmt", 53)>>,
             flags |-> {}])
  @@ (73 :> [ptr |-> 73, kind |-> "Aligned", range |-> NoRange,
             dump |-> <<Streamed("alignas"), SubNode("dumpType", 32)>>,
             flags |-> {}])

\* The node at an address; the null pointer reads as the family's null node.
Decl(p) == IF p = NULL THEN NoDecl ELSE TheDecls[p]
Stmt(p) == IF p = NULL THEN NoStmt ELSE TheStmts[p]
Comment(p) == IF p = NULL THEN NoComment ELSE TheComments[p]
Type(p) == IF p = NULL THEN NoType ELSE TheTypes[p]

\* std::vector<const Type*> types, as the constructor fills it.
types == <<30, 31, 32, 33, NULL>>

----------------------------------------------------------------------------
\* Tuple sizes.

\* DeclContextTupleSize()
DeclContextTupleSize == 2

RECURSIVE DeclTupleSize(_), StmtTupleSize(_)

\* DERIVED##DeclTupleSize(), for DERIVED = k: the definitions the exporter
\* gives, and for every other node of DeclNodes.inc the macro's
\* BASE##TupleSize().
DeclTupleSize(k) ==
  CASE k = "" -> 1
    [] k = "Captured" -> DeclTupleSize("") + DeclContextTupleSize
    [] k = "LinkageSpec" -> DeclTupleSize("") + DeclContextTupleSize
    [] k = "Namespace" -> DeclTupleSize("Named") + DeclContextTupleSize + 1
    [] k = "ObjCContainer" -> DeclTupleSize("Named") + DeclContextTupleSize
    [] k = "Tag" -> DeclTupleSize("Type") + DeclContextTupleSize
    [] k = "Type" -> DeclTupleSize("Named") + 1 + 1
    [] k = "Value" -> DeclTupleSize("Named") + 1
    [] k = "TranslationUnit" -> DeclTupleSize("") + DeclContextTupleSize + 1
    [] k = "Named" -> DeclTupleSize("") + 1
    [] k = "Typedef" -> DeclTupleSize("TypedefName") + 1
    [] k = "Enum" -> DeclTupleSize("Tag") + 1
    [] k = "Record" -> DeclTupleSize("Tag") + 1
    [] k = "EnumConstant" -> DeclTupleSize("Value") + 1
    [] k = "IndirectField" -> DeclTupleSize("Value") + 1
    [] k = "Function" -> DeclTupleSize("Declarator") + 1
    [] k = "Field" -> DeclTupleSize("Declarator") + 1
    [] k = "Var" -> DeclTupleSize("Declarator") + 1
    [] k = "FileScopeAsm" -> DeclTupleSize("") + 1
    [] k = "Import" -> DeclTupleSize("") + 1
    [] k = "UsingDirective" -> DeclTupleSize("Named") + 1
    [] k = "NamespaceAlias" -> DeclTupleSize("Named") + 1
    [] k = "CXXRecord" -> DeclTupleSize("Record") + 1
    [] k = "ObjCIvar" -> DeclTupleSize("Field") + 1
    [] k = "ObjCMethod" -> DeclTupleSize("Named") + 1
    [] k = "ObjCCategory" -> DeclTupleSize("ObjCContainer") + 1
    [] k = "ObjCCategoryImpl" -> DeclTupleSize("ObjCImpl") + 1
    [] k = "ObjCProtocol" -> DeclTupleSize("ObjCContainer") + 1
    [] k = "ObjCInterface" -> DeclTupleSize("ObjCContainer") + 1
    [] k = "ObjCImplementation" -> DeclTupleSize("ObjCImpl") + 1
    [] k = "ObjCCompatibleAlias" -> DeclTupleSize("Named") + 1
    [] k = "ObjCProperty" -> DeclTupleSize("Named") + 1
    [] k = "ObjCPropertyImpl" -> DeclTupleSize("") + 1
    [] k = "Block" -> DeclTupleSize("") + DeclContextTupleSize + 1
    [] OTHER -> DeclTupleSize(DeclBase[k])

\* What tupleSizeOfDeclKind would return if it asked for the base's size.
tupleSizeOfDeclKind_OfBase(kind) == DeclTupleSize(DeclBase[kind])

\* TupleSizeBase::tupleSizeOfDeclKind
tupleSizeOfDeclKind(kind) == DeclTupleSize(kind)

\* CLASS##TupleSize(), for CLASS = c: the definitions the exporter gives,
\* and for every other node of StmtNodes.inc the macro's PARENT##TupleSize().
StmtTupleSize(c) ==
  CASE c = "Stmt" -> 2
    [] c \in {"DeclStmt", "AttributedStmt", "LabelStmt", "GotoStmt",
              "CXXCatchStmt", "Expr", "ObjCAtCatchStmt"} ->
         StmtTupleSize("Stmt") + 1
    [] c \in {"CastExpr", "DeclRefExpr", "OverloadExpr", "ObjCIvarRefExpr",
              "PredefinedExpr", "CharacterLiteral", "IntegerLiteral",
              "FloatingLiteral", "StringLiteral", "UnaryOperator",
              "UnaryExprOrTypeTraitExpr", "MemberExpr",
              "ExtVectorElementExpr", "BinaryOperator", "OpaqueValueExpr",
              "AddrLabelExpr", "CXXBoolLiteralExpr", "CXXConstructExpr",
              "CXXBindTemporaryExpr", "MaterializeTemporaryExpr",
              "ExprWithCleanups", "CXXNewExpr", "CXXDeleteExpr",
              "ObjCMessageExpr", "ObjCBoxedExpr", "ObjCEncodeExpr",
              "ObjCSelectorExpr", "ObjCProtocolExpr", "ObjCPropertyRefExpr",
              "ObjCSubscriptRefExpr", "ObjCBoolLiteralExpr"} ->
         StmtTupleSize("Expr") + 1
    [] c = "ExplicitCastExpr" -> StmtTupleSize("CastExpr") + 1
    [] c = "UnresolvedLookupExpr" -> StmtTupleSize("OverloadExpr") + 1
    [] c = "CompoundAssignOperator" -> StmtTupleSize("BinaryOperator") + 1
    [] c = "CXXNamedCastExpr" -> StmtTupleSize("ExplicitCastExpr") + 1
    [] c \in {"BlockExpr", "LambdaExpr"} ->
         StmtTupleSize("Expr") + DeclTupleSize("")
    [] OTHER -> StmtTupleSize(StmtBase[c])

\* What tupleSizeOfStmtClass would return if it asked for the parent's size.
tupleSizeOfStmtClass_OfParent(stmtClass) == StmtTupleSize(StmtBase[stmtClass])

\* TupleSizeBase::tupleSizeOfStmtClass
tupleSizeOfStmtClass(stmtClass) == StmtTupleSize(stmtClass)

----------------------------------------------------------------------------
----------------------------------------------------------------------------
\* Utilities.

\* A call of a method of the exporter made by a method: the method and its
\* arguments.  call_VisitDecl(D, k) is the call Visit<k>Decl(D) and
\* call_VisitStmt(S, c) the call Visit<c>(S), as the visitor base classes
\* resolve them.
call_dumpDecl(D, site) == <<[op |-> "dumpDecl", n |-> 0, s |-> site, node |-> D]>>
call_VisitDeclContext(DC) ==
  <<[op |-> "VisitDeclContext", n |-> 0, s |-> "", node |-> DC]>>
call_dumpStmt(S) == <<[op |-> "dumpStmt", n |-> 0, s |-> "", node |-> S]>>
call_dumpComment(C) == <<[op |-> "dumpComment", n |-> 0, s |-> "", node |-> C]>>
call_dumpType(T) == <<[op |-> "dumpType", n |-> 0, s |-> "", node |-> T]>>
call_VisitDecl(D, k) == <<[op |-> "VisitDecl", n |-> 0, s |-> k, node |-> D]>>
call_VisitStmt(S, c) == <<[op |-> "VisitStmt", n |-> 0, s |-> c, node |-> S]>>

\* History, not calls of the program: LogDecl, NullBegin and NullEnd mark a
\* place in the sequence of calls.  The pointer token just written is that
\* of declaration ptr, in its decl_info (how = "info") or in a decl_ref
\* (how = "ref"); or the declaration starts to be written by value
\* (how = "value") by the caller named site; or the caller named site asks
\* whether the declaration is to be traversed (how = "filter"); or
\* VisitDeclContext starts on the scope ptr (how = "scope").
LogDecl(ptr, how, site) ==
  <<[op |-> "LogDecl", n |-> ptr, s |-> how, site |-> site]>>

\* History: the encoding of a null reference of a family starts and ends.
NullBegin(family) == <<[op |-> "NullBegin", n |-> 0, s |-> family]>>
NullEnd(family) == <<[op |-> "NullEnd", n |-> 0, s |-> family]>>

\* What dumpPointerToType would do if it encoded the type where it is used.
dumpPointerToType_ByValue(qt) == call_dumpType(Type(qt))
\* ASTExporter::dumpPointerToType; a QualType is the address of its type.
dumpPointerToType(qt) == call_dumpPointer(qt)

\* ASTExporter::dumpTypeOld
dumpTypeOld(T) ==
  IF T = NULL THEN emitSimpleVariant("NoType")
  ELSE beginVariant("Type") \o emitString(Type(Type(T).desugared).raw) \o endVariant

\* ASTExporter::dumpQualType
dumpQualType(T) ==
  LET ShouldEmitDesugared == T # NULL /\ Type(T).desugared # T
  IN beginObject(2 + B(ShouldEmitDesugared), "qual_type")
     \o emitTag("raw") \o emitString(Type(T).raw)
     \o (IF ShouldEmitDesugared
         THEN emitTag("desugared") \o emitString(Type(Type(T).desugared).raw)
         ELSE <<>>)
     \o emitTag("type_ptr") \o dumpPointerToType(T)
     \o endObject

\* The loop of dumpName that splits the qualified name at every "::":
\* qualName.find(token, firstChar) finds the first two adjacent colons at or
\* after firstChar.  The name is given as its pieces in order, every colon
\* being a piece of its own; cur is what substr gives so far.
RECURSIVE splitted(_, _, _)
splitted(qualName, i, cur) ==
  IF i > Len(qualName) THEN <<cur>>
  ELSE IF i < Len(qualName) /\ qualName[i] = ":" /\ qualName[i + 1] = ":"
  THEN <<cur>> \o splitted(qualName, i + 2, "")
  ELSE splitted(qualName, i + 1, cur \o qualName[i])

\* What the last loop of dumpName would write if it ran from the first
\* element to the last.
emitStringsReversed_InOrder(strs) ==
  [i \in 1 .. Len(strs) |-> Ev("string", 0, strs[i])]
\* for (...) OF.emitString(...), last element first
emitStringsReversed(strs) ==
  [i \in 1 .. Len(strs) |-> Ev("string", 0, strs[Len(strs) + 1 - i])]

\* for (...) OF.emitString(...)
emitStrings(strs) == [i \in 1 .. Len(strs) |-> Ev("string", 0, strs[i])]

\* ASTExporter::dumpName
dumpName(D) ==
  LET parts == splitted(D.qualName, 1, "")
  IN beginObject(2, "named_decl_info")
     \o emitTag("name") \o emitString(D.name)
     \o emitTag("qual_name")
     \o beginArray(Len(parts)) \o emitStringsReversed(parts) \o endArray
     \o endObject

\* A reference that is written as the declaration itself.
dumpDeclRef_ByValue(D) == call_dumpDecl(D, "dumpDeclRef")

\* ASTExporter::dumpDeclRef
dumpDeclRef(D) ==
  LET ND == DeclIsA(D.kind, "Named")
      VD == DeclIsA(D.kind, "Value")
      IsHidden == ND /\ "IsHidden" \in D.flags
  IN beginObject(2 + B(ND) + B(VD) + B(IsHidden), "decl_ref")
     \o emitTag("kind") \o emitSimpleVariant(D.kind)
     \o emitTag("decl_pointer") \o call_dumpPointer(D.ptr)
     \o LogDecl(D.ptr, "ref", "")
     \o (IF ND
         THEN emitTag("name") \o dumpName(D) \o emitFlag("is_hidden", IsHidden)
         ELSE <<>>)
     \o (IF VD THEN emitTag("qual_type") \o dumpQualType(D.type) ELSE <<>>)
     \o endObject

RECURSIVE dumpDeclRefs(_)
\* for (...) dumpDeclRef(**I)
dumpDeclRefs(ptrs) ==
  IF ptrs = <<>> THEN <<>>
  ELSE dumpDeclRef(Decl(Head(ptrs))) \o dumpDeclRefs(Tail(ptrs))

RECURSIVE dumpDecls(_, _)
\* for (...) dumpDecl(*I)
dumpDecls(ptrs, site) ==
  IF ptrs = <<>> THEN <<>>
  ELSE call_dumpDecl(Decl(Head(ptrs)), site) \o dumpDecls(Tail(ptrs), site)

RECURSIVE dumpStmts(_)
\* for (...) dumpStmt(*I)
dumpStmts(ptrs) ==
  IF ptrs = <<>> THEN <<>>
  ELSE call_dumpStmt(Stmt(Head(ptrs))) \o dumpStmts(Tail(ptrs))

\* for (...) dumpPointerToType(...) and for (...) dumpPointer(...)
dumpPointers(ptrs) ==
  [i \in 1 .. Len(ptrs) |-> [op |-> "dumpPointer", n |-> ptrs[i], s |-> ""]]

\* FileUtils::shouldTraverseDeclFile(*Options.deduplicationService, ..., *I):
\* the input says of which declarations it is false.
shouldTraverseDeclFile(I) == "IsExcluded" \notin I.flags

\* History: shouldTraverseDeclFile has been evaluated for each of ptrs.
RECURSIVE consulted(_, _)
consulted(ptrs, site) ==
  IF ptrs = <<>> THEN <<>>
  ELSE LogDecl(Head(ptrs), "filter", site) \o consulted(Tail(ptrs), site)

\* What declsToDump would hold if every member were pushed to it.
declsToDump_All(ds, decls) == decls
\* The first loop of VisitDeclContext: the members pushed to declsToDump; ds
\* is Options.deduplicationService != nullptr.
RECURSIVE declsToDump(_, _)
declsToDump(ds, decls) ==
  IF decls = <<>> THEN <<>>
  ELSE (IF ~ds \/ shouldTraverseDeclFile(Decl(Head(decls)))
        THEN <<Head(decls)>> ELSE <<>>)
       \o declsToDump(ds, Tail(decls))

\* ASTExporter::VisitDeclContext; DC is a declaration that is a DeclContext,
\* or the null node.
VisitDeclContext(ds, DC) ==
  IF DC.ptr = NULL
  THEN LogDecl(NULL, "scope", "VisitDeclContext")
       \o beginArray(0) \o endArray \o beginObject(0, "decl_context_info") \o endObject
  ELSE LET HasExternalLexicalStorage == "HasExternalLexicalStorage" \in DC.flags
           HasExternalVisibleStorage == "HasExternalVisibleStorage" \in DC.flags
       IN LogDecl(DC.ptr, "scope", "VisitDeclContext")
          \o (IF ds THEN consulted(DC.members, "VisitDeclContext") ELSE <<>>)
          \o beginArray(Len(declsToDump(ds, DC.members)))
          \o dumpDecls(declsToDump(ds, DC.members), "VisitDeclContext")
          \o endArray
          \o beginObject(0 + B(HasExternalLexicalStorage)
                           + B(HasExternalVisibleStorage), "decl_context_info")
          \o emitFlag("has_external_lexical_storage", HasExternalLexicalStorage)
          \o emitFlag("has_external_visible_storage", HasExternalVisibleStorage)
          \o endObject

RECURSIVE dumpLookupResults(_)
\* The while loop of dumpLookups; a lookup is a name and the declarations
\* found for it.
dumpLookupResults(lookups) ==
  IF lookups = <<>> THEN <<>>
  ELSE LET R == Head(lookups)
       IN beginObject(2, "lookup")
          \o emitTag("decl_name") \o emitString(R.name)
          \o emitTag("decl_refs")
          \o beginArray(NoSize) \o dumpDeclRefs(R.refs) \o endArray
          \o endObject
          \o dumpLookupResults(Tail(lookups))

\* ASTExporter::dumpLookups; DC.primary is the primary context of DC.
dumpLookups(DC) ==
  LET Primary == Decl(DC.primary)
      HasUndeserializedLookups == "HasExternalVisibleStorage" \in Primary.flags
  IN beginObject(4, "lookups")
     \o emitTag("decl_ref") \o dumpDeclRef(DC)
     \o (IF Primary.ptr # DC.ptr
         THEN emitTag("primary_context_pointer") \o call_dumpPointer(Primary.ptr)
         ELSE <<>>)
     \o emitTag("lookups")
     \o beginArray(NoSize) \o dumpLookupResults(Primary.lookups) \o endArray
     \o emitFlag("has_undeserialized_decls", HasUndeserializedLookups)
     \o endObject
\* llvm_unreachable(msg) is executed; alt is what the method goes on to do
\* if the build carries on at the case of the switch that calls it.
llvm_unreachable(msg, alt) ==
  <<[op |-> "llvm_unreachable", n |-> 0, s |-> msg, alt |-> alt]>>

\* The attribute kinds of clang/Basic/AttrList.inc that the inputs use.
AttrKinds == {"Unused", "Annotate", "Cleanup", "Aligned"}

\* What a print would add to OS if a sub-node were printed as its address.
printed_Address(item) == IF item.op = "<<" THEN item.str ELSE FormatP(item.node)
\* What a print adds to OS under the #defines of dumpAttr:
\* dumpBareDeclRef(X), dumpStmt(X) and dumpType(X) are each OS << "?".
printed(item) == IF item.op = "<<" THEN item.str ELSE "?"

\* ASTExporter::dumpAttr; an attribute is a record of its address, kind,
\* range, the prints AttrDump.inc makes for it and its flags.  A kind that
\* the switch has no case for leaves tag empty after llvm_unreachable.
dumpAttr(Att) ==
  LET IsInherited == "IsInherited" \in Att.flags
      IsImplicit == "IsImplicit" \in Att.flags
      Content == [i \in 1 .. Len(Att.dump) |-> printed(Att.dump[i])]
      tag == IF Att.kind \in AttrKinds THEN Att.kind \o "Attr" ELSE ""
      rest ==
        beginVariant(tag)
        \o beginObject(3 + B(IsInherited) + B(IsImplicit), "attribute_info")
        \o emitTag("pointer") \o call_dumpPointer(Att.ptr)
        \o emitTag("source_range") \o dumpSourceRange(Att.range)
        \o emitTag("parameters")
        \o beginArray(Len(Content)) \o emitStrings(Content) \o endArray
        \o emitFlag("is_inherited", IsInherited)
        \o emitFlag("is_implicit", IsImplicit)
        \o endObject
        \o endVariant
  IN (IF Att.kind \in AttrKinds
      THEN <<>>
      ELSE llvm_unreachable("unexpected attribute kind", <<>>))
     \o rest

RECURSIVE dumpAttrs(_)
\* for (auto I : D->attrs()) dumpAttr(*I)
dumpAttrs(attrs) ==
  IF attrs = <<>> THEN <<>> ELSE dumpAttr(Head(attrs)) \o dumpAttrs(Tail(attrs))

\* dumpPreviousDeclImpl(OF, withPointers, const Redeclarable<T> *D); D.previous
\* is D->getPreviousDecl().
dumpPreviousDeclImpl_Redeclarable(D) ==
  IF D.previous # NULL
  THEN emitTag("previous_decl")
       \o beginVariant("Previous") \o call_dumpPointer(D.previous) \o endVariant
  ELSE <<>>

\* dumpPreviousDeclImpl(OF, withPointers, const Mergeable<T> *D); D.first is
\* D->getFirstDecl() where that is not D itself.
dumpPreviousDeclImpl_Mergeable(D) ==
  IF D.first # NULL
  THEN emitTag("previous_decl")
       \o beginVariant("First") \o call_dumpPointer(D.first) \o endVariant
  ELSE <<>>

\* dumpPreviousDeclImpl(OF, withPointers, ...): the only overload that a call
\* with two arguments can take.
dumpPreviousDeclImpl(wp) == <<>>

\* dumpPreviousDeclOptionallyWithTag: every case calls
\* dumpPreviousDeclImpl(OF, cast<DERIVED##Decl>(D)), where the pointer
\* converts to the bool withPointers.  Its own argument withPointers is not
\* used.
dumpPreviousDeclOptionallyWithTag(D) == dumpPreviousDeclImpl(D.ptr # NULL)

\* ASTExporter::dumpCXXCtorInitializer
dumpCXXCtorInitializer(Init_) ==
  LET E == Init_.init
  IN beginObject(1 + B(E # NULL), "cxx_ctor_initializer")
     \o emitTag("subject")
     \o (IF Init_.member # NULL
         THEN beginVariant("Member") \o dumpDeclRef(Decl(Init_.member)) \o endVariant
         ELSE IF Init_.delegating
         THEN beginVariant("Delegating") \o dumpQualType(Init_.type) \o endVariant
         ELSE beginVariant("BaseClass")
              \o beginTuple(2)
              \o dumpQualType(Init_.type) \o emitBoolean(Init_.baseVirtual)
              \o endTuple
              \o endVariant)
     \o (IF E # NULL THEN emitTag("init_expr") \o call_dumpStmt(Stmt(E)) ELSE <<>>)
     \o endObject

RECURSIVE dumpCXXCtorInitializers(_)
\* for (...) dumpCXXCtorInitializer(**I)
dumpCXXCtorInitializers(inits) ==
  IF inits = <<>> THEN <<>>
  ELSE dumpCXXCtorInitializer(Head(inits)) \o dumpCXXCtorInitializers(Tail(inits))

\* ASTExporter::dumpDeclarationName; every case of the switch writes the
\* name of its DeclarationName::NameKind.
dumpDeclarationName(Name) ==
  beginObject(2, "declaration_name")
  \o emitTag("kind") \o emitSimpleVariant(Name.kind)
  \o emitTag("name") \o emitString(Name.name)
  \o endObject

RECURSIVE dumpNestedNames(_)
\* The second loop of dumpNestedNameSpecifierLoc, outermost specifier first.
dumpNestedNames(NestedNames) ==
  IF NestedNames = <<>> THEN <<>>
  ELSE LET NNS == Head(NestedNames)
       IN beginObject(2, "nested_name_specifier_loc")
          \o emitTag("kind") \o emitSimpleVariant(NNS.kind)
          \o (IF NNS.kind \in {"Namespace", "NamespaceAlias"}
              THEN emitTag("ref") \o dumpDeclRef(Decl(NNS.ref))
              ELSE <<>>)
          \o endObject
          \o dumpNestedNames(Tail(NestedNames))

\* ASTExporter::dumpNestedNameSpecifierLoc
dumpNestedNameSpecifierLoc(NNS) ==
  beginArray(Len(NNS)) \o dumpNestedNames(NNS) \o endArray

\* ASTExporter::dumpFullComment (FC is only read by code that is commented out)
dumpFullComment(C) == call_dumpComment(C)

----------------------------------------------------------------------------
\* Declarations.

\* ASTExporter::VisitDecl
VisitDecl(D) ==
  LET ShouldEmitParentPointer == "ShouldEmitParentPointer" \in D.flags
      M == D.module
      IsNDHidden == DeclIsA(D.kind, "Named") /\ "IsHidden" \in D.flags
      IsDImplicit == "IsDImplicit" \in D.flags
      IsDUsed == "IsDUsed" \in D.flags
      IsDReferenced == "IsDReferenced" \in D.flags
      IsDInvalid == "IsDInvalid" \in D.flags
      Comment_ == D.comment
      maxSize == 4 + B(ShouldEmitParentPointer) + B(M # "") + B(IsNDHidden)
                 + B(IsDImplicit) + B(IsDUsed) + B(IsDReferenced)
                 + B(IsDInvalid) + B(Comment_ # NULL)
  IN beginObject(maxSize, "decl_info")
     \o emitTag("pointer") \o call_dumpPointer(D.ptr)
     \o LogDecl(D.ptr, "info", "")
     \o (IF ShouldEmitParentPointer
         THEN emitTag("parent_pointer") \o call_dumpPointer(D.parent)
         ELSE <<>>)
     \o dumpPreviousDeclOptionallyWithTag(D)
     \o emitTag("source_range") \o dumpSourceRange(D.range)
     \o (IF M # "" THEN emitTag("owning_module") \o emitString(M) ELSE <<>>)
     \o emitFlag("is_hidden", IsNDHidden)
     \o emitFlag("is_implicit", IsDImplicit)
     \o emitFlag("is_used", IsDUsed)
     \o emitFlag("is_this_declaration_referenced", IsDReferenced)
     \o emitFlag("is_invalid_decl", IsDInvalid)
     \o emitTag("attributes")
     \o beginArray(Len(D.attrs)) \o dumpAttrs(D.attrs) \o endArray
     \o (IF Comment_ # NULL
         THEN emitTag("full_comment") \o dumpFullComment(Comment(Comment_))
         ELSE <<>>)
     \o endObject

\* ASTExporter::VisitCapturedDecl
VisitCapturedDecl(D) == VisitDecl(D) \o call_VisitDeclContext(D)

\* ASTExporter::VisitLinkageSpecDecl
VisitLinkageSpecDecl(D) == VisitDecl(D) \o call_VisitDeclContext(D)

\* What VisitNamedDecl would write if it wrote the name before the fields of
\* its base.
VisitNamedDecl_NameFirst(D) == dumpName(D) \o VisitDecl(D)

\* ASTExporter::VisitNamedDecl
VisitNamedDecl(D) == VisitDecl(D) \o dumpName(D)

\* ASTExporter::VisitNamespaceDecl
VisitNamespaceDecl(D) ==
  LET IsInline == "IsInline" \in D.flags
      IsOriginalNamespace == D.ref = NULL
  IN VisitNamedDecl(D)
     \o call_VisitDeclContext(D)
     \o beginObject(0 + B(IsInline) + B(~IsOriginalNamespace), "namespace_decl_info")
     \o emitFlag("is_inline", IsInline)
     \o (IF ~IsOriginalNamespace
         THEN emitTag("original_namespace") \o dumpDeclRef(Decl(D.ref))
         ELSE <<>>)
     \o endObject

\* ASTExporter::VisitObjCContainerDecl
VisitObjCContainerDecl(D) == VisitNamedDecl(D) \o call_VisitDeclContext(D)

\* ASTExporter::VisitTypeDecl
VisitTypeDecl(D) ==
  LET T == D.typeForDecl
  IN VisitNamedDecl(D) \o dumpTypeOld(T) \o call_dumpPointer(T)

\* ASTExporter::VisitTagDecl
VisitTagDecl(D) == VisitTypeDecl(D) \o call_VisitDeclContext(D)

\* ASTExporter::VisitValueDecl
VisitValueDecl(D) == VisitNamedDecl(D) \o dumpQualType(D.type)

RECURSIVE dumpTypes(_)
\* for (const Type* type : types) dumpType(type)
dumpTypes(ts) ==
  IF ts = <<>> THEN <<>> ELSE call_dumpType(Type(Head(ts))) \o dumpTypes(Tail(ts))

\* ASTExporter::VisitTranslationUnitDecl
VisitTranslationUnitDecl(D) ==
  VisitDecl(D) \o call_VisitDeclContext(D)
  \o beginArray(Len(types)) \o dumpTypes(types) \o endArray
\* ASTExporter::VisitTypedefDecl
VisitTypedefDecl(D) ==
  LET IsModulePrivate == "IsModulePrivate" \in D.flags
  IN call_VisitDecl(D, "TypedefName")
     \o beginObject(0 + B(IsModulePrivate), "typedef_decl_info")
     \o emitFlag("is_module_private", IsModulePrivate)
     \o endObject

\* ASTExporter::VisitEnumDecl
VisitEnumDecl(D) ==
  LET IsScoped == "IsScoped" \in D.flags
      IsModulePrivate == "IsModulePrivate" \in D.flags
  IN VisitTagDecl(D)
     \o beginObject(0 + B(IsScoped) + B(IsModulePrivate), "enum_decl_info")
     \o (IF IsScoped
         THEN emitTag("scope")
              \o (IF "IsScopedUsingClassTag" \in D.flags
                  THEN emitSimpleVariant("Class")
                  ELSE emitSimpleVariant("Struct"))
         ELSE <<>>)
     \o emitFlag("is_module_private", IsModulePrivate)
     \o endObject

\* ASTExporter::VisitRecordDecl
VisitRecordDecl(D) ==
  LET IsModulePrivate == "IsModulePrivate" \in D.flags
      IsCompleteDefinition == "IsCompleteDefinition" \in D.flags
  IN VisitTagDecl(D)
     \o beginObject(0 + B(IsModulePrivate) + B(IsCompleteDefinition),
                    "record_decl_info")
     \o emitFlag("is_module_private", IsModulePrivate)
     \o emitFlag("is_complete_definition", IsCompleteDefinition)
     \o endObject

\* ASTExporter::VisitEnumConstantDecl
VisitEnumConstantDecl(D) ==
  LET Init_ == D.init
  IN VisitValueDecl(D)
     \o beginObject(0 + B(Init_ # NULL), "enum_constant_decl_info")
     \o (IF Init_ # NULL THEN emitTag("init_expr") \o call_dumpStmt(Stmt(Init_)) ELSE <<>>)
     \o endObject

\* ASTExporter::VisitIndirectFieldDecl
VisitIndirectFieldDecl(D) ==
  VisitValueDecl(D)
  \o beginArray(Len(D.chain)) \o dumpDeclRefs(D.chain) \o endArray

\* ASTExporter::VisitFunctionDecl
VisitFunctionDecl(D) ==
  LET HasStorageClass == "HasStorageClass" \in D.flags
      IsInlineSpecified == "IsInlineSpecified" \in D.flags
      IsVirtualAsWritten == "IsVirtualAsWritten" \in D.flags
      IsModulePrivate == "IsModulePrivate" \in D.flags
      IsPure == "IsPure" \in D.flags
      IsDeletedAsWritten == "IsDeletedAsWritten" \in D.flags
      C == DeclIsA(D.kind, "CXXConstructor")
      HasCtorInitializers == C /\ D.inits # <<>>
      HasDeclarationBody == "HasDeclarationBody" \in D.flags
      size == 2 + B(HasStorageClass) + B(IsInlineSpecified) + B(IsVirtualAsWritten)
              + B(IsModulePrivate) + B(IsPure) + B(IsDeletedAsWritten)
              + B(HasCtorInitializers) + B(HasDeclarationBody)
      decls == D.protoDecls
      Body == D.body
  IN call_VisitDecl(D, "Declarator")
     \o beginObject(size, "function_decl_info")
     \o (IF HasStorageClass
         THEN emitTag("storage_class") \o emitString("static")
         ELSE <<>>)
     \o emitFlag("is_inline", IsInlineSpecified)
     \o emitFlag("is_virtual", IsVirtualAsWritten)
     \o emitFlag("is_module_private", IsModulePrivate)
     \o emitFlag("is_pure", IsPure)
     \o emitFlag("is_delete_as_written", IsDeletedAsWritten)
     \o (IF decls # <<>>
         THEN emitTag("decls_in_prototype_scope")
              \o beginArray(Len(decls))
              \o dumpDecls(decls, "VisitFunctionDecl.decls_in_prototype_scope")
              \o endArray
         ELSE <<>>)
     \o (IF D.params # <<>>
         THEN emitTag("parameters")
              \o beginArray(Len(D.params))
              \o dumpDecls(D.params, "VisitFunctionDecl.parameters")
              \o endArray
         ELSE <<>>)
     \o (IF HasCtorInitializers
         THEN emitTag("cxx_ctor_initializers")
              \o beginArray(Len(D.inits))
              \o dumpCXXCtorInitializers(D.inits)
              \o endArray
         ELSE <<>>)
     \o (IF HasDeclarationBody /\ Body # NULL
         THEN emitTag("body") \o call_dumpStmt(Stmt(Body))
         ELSE <<>>)
     \o endObject

\* ASTExporter::VisitFieldDecl
VisitFieldDecl(D) ==
  LET IsMutable == "IsMutable" \in D.flags
      IsModulePrivate == "IsModulePrivate" \in D.flags
      HasBitWidth == "IsBitField" \in D.flags /\ D.bitWidth # NULL
      Init_ == D.init
  IN call_VisitDecl(D, "Declarator")
     \o beginObject(0 + B(IsMutable) + B(IsModulePrivate) + B(HasBitWidth)
                      + B(Init_ # NULL), "field_decl_info")
     \o emitFlag("is_mutable", IsMutable)
     \o emitFlag("is_module_private", IsModulePrivate)
     \o (IF HasBitWidth
         THEN emitTag("bit_width_expr") \o call_dumpStmt(Stmt(D.bitWidth))
         ELSE <<>>)
     \o (IF Init_ # NULL THEN emitTag("init_expr") \o call_dumpStmt(Stmt(Init_)) ELSE <<>>)
     \o endObject

\* ASTExporter::VisitVarDecl
VisitVarDecl(D) ==
  LET HasStorageClass == "HasStorageClass" \in D.flags
      IsModulePrivate == "IsModulePrivate" \in D.flags
      IsNRVOVariable == "IsNRVOVariable" \in D.flags
      HasInit == "HasInit" \in D.flags
  IN call_VisitDecl(D, "Declarator")
     \o beginObject(1 + B(HasStorageClass) + B(IsModulePrivate)
                      + B(IsNRVOVariable) + B(HasInit), "var_decl_info")
     \o (IF HasStorageClass
         THEN emitTag("storage_class") \o emitString("static")
         ELSE <<>>)
     \o (CASE "TLS_Static" \in D.flags ->
                emitTag("tls_kind") \o emitSimpleVariant("Tls_static")
           [] "TLS_Dynamic" \in D.flags ->
                emitTag("tls_kind") \o emitSimpleVariant("Tls_dynamic")
           [] OTHER -> <<>>)
     \o emitFlag("is_module_private", IsModulePrivate)
     \o emitFlag("is_nrvo_variable", IsNRVOVariable)
     \o (IF HasInit THEN emitTag("init_expr") \o call_dumpStmt(Stmt(D.init)) ELSE <<>>)
     \o endObject

\* ASTExporter::VisitFileScopeAsmDecl
VisitFileScopeAsmDecl(D) == VisitDecl(D) \o emitString(D.str)

\* ASTExporter::VisitImportDecl
VisitImportDecl(D) == VisitDecl(D) \o emitString(D.str)

\* ASTExporter::VisitUsingDirectiveDecl
VisitUsingDirectiveDecl(D) ==
  LET HasNominatedNamespace == D.ref # NULL
  IN VisitNamedDecl(D)
     \o beginObject(3 + B(HasNominatedNamespace), "using_directive_decl_info")
     \o emitTag("using_location") \o call_dumpSourceLocation(D.locs[1])
     \o emitTag("namespace_key_location") \o call_dumpSourceLocation(D.locs[2])
     \o emitTag("nested_name_specifier_locs") \o dumpNestedNameSpecifierLoc(D.nns)
     \o (IF HasNominatedNamespace
         THEN emitTag("nominated_namespace") \o dumpDeclRef(Decl(D.ref))
         ELSE <<>>)
     \o endObject

\* ASTExporter::VisitNamespaceAliasDecl
VisitNamespaceAliasDecl(D) ==
  VisitNamedDecl(D)
  \o beginObject(4, "namespace_alias_decl_info")
  \o emitTag("namespace_loc") \o call_dumpSourceLocation(D.locs[1])
  \o emitTag("target_name_loc") \o call_dumpSourceLocation(D.locs[2])
  \o emitTag("nested_name_specifier_locs") \o dumpNestedNameSpecifierLoc(D.nns)
  \o emitTag("namespace") \o dumpDeclRef(Decl(D.ref))
  \o endObject

\* SelectSeq without a higher-order argument: the bases that are / are not virtual.
RECURSIVE basesOf(_, _)
basesOf(bases, virtual) ==
  IF bases = <<>> THEN <<>>
  ELSE (IF Head(bases).virtual = virtual THEN <<Head(bases).type>> ELSE <<>>)
       \o basesOf(Tail(bases), virtual)

\* ASTExporter::VisitCXXRecordDecl
VisitCXXRecordDecl(D) ==
  LET nonVBases == basesOf(D.bases, FALSE)
      vBases == basesOf(D.bases, TRUE)
      HasVBases == Len(vBases) > 0
      HasNonVBases == Len(nonVBases) > 0
      IsCLike == "IsCLike" \in D.flags
  IN VisitRecordDecl(D)
     \o (IF "IsCompleteDefinition" \notin D.flags
         THEN beginObject(0, "cxx_record_decl_info") \o endObject
         ELSE beginObject(0 + B(HasNonVBases) + B(HasVBases) + B(IsCLike),
                          "cxx_record_decl_info")
              \o (IF HasNonVBases
                  THEN emitTag("bases")
                       \o beginArray(Len(nonVBases)) \o dumpPointers(nonVBases)
                       \o endArray
                  ELSE <<>>)
              \o (IF HasVBases
                  THEN emitTag("vbases")
                       \o beginArray(Len(vBases)) \o dumpPointers(vBases)
                       \o endArray
                  ELSE <<>>)
              \o emitFlag("is_c_like", IsCLike)
              \o endObject)
\* ASTExporter::VisitObjCIvarDecl
VisitObjCIvarDecl(D) ==
  LET IsSynthesize == "IsSynthesize" \in D.flags
      AC == D.access
  IN VisitFieldDecl(D)
     \o beginObject(1 + B(IsSynthesize), "obj_c_ivar_decl_info")
     \o emitFlag("is_synthesize", IsSynthesize)
     \o (IF AC # "None"
         THEN emitTag("access_control") \o emitSimpleVariant(AC)
         ELSE <<>>)
     \o endObject

\* ASTExporter::VisitObjCMethodDecl
VisitObjCMethodDecl(D) ==
  LET IsInstanceMethod == "IsInstanceMethod" \in D.flags
      HasParameters == D.params # <<>>
      IsVariadic == "IsVariadic" \in D.flags
      Body == D.body
  IN VisitNamedDecl(D)
     \o beginObject(1 + B(IsInstanceMethod) + B(HasParameters) + B(IsVariadic)
                      + B(Body # NULL), "obj_c_method_decl_info")
     \o emitFlag("is_instance_method", IsInstanceMethod)
     \o emitTag("result_type") \o dumpQualType(D.type)
     \o (IF HasParameters
         THEN emitTag("parameters")
              \o beginArray(Len(D.params))
              \o dumpDecls(D.params, "VisitObjCMethodDecl.parameters")
              \o endArray
         ELSE <<>>)
     \o emitFlag("is_variadic", IsVariadic)
     \o (IF Body # NULL THEN emitTag("body") \o call_dumpStmt(Stmt(Body)) ELSE <<>>)
     \o endObject

\* ASTExporter::VisitObjCCategoryDecl
VisitObjCCategoryDecl(D) ==
  LET CI == D.ref
      Impl == D.ref2
      HasProtocols == D.protocols # <<>>
  IN VisitObjCContainerDecl(D)
     \o beginObject(0 + B(CI # NULL) + B(Impl # NULL) + B(HasProtocols),
                    "obj_c_category_decl_info")
     \o (IF CI # NULL THEN emitTag("class_interface") \o dumpDeclRef(Decl(CI)) ELSE <<>>)
     \o (IF Impl # NULL THEN emitTag("implementation") \o dumpDeclRef(Decl(Impl)) ELSE <<>>)
     \o (IF HasProtocols
         THEN emitTag("protocols")
              \o beginArray(Len(D.protocols)) \o dumpDeclRefs(D.protocols) \o endArray
         ELSE <<>>)
     \o endObject

\* ASTExporter::VisitObjCCategoryImplDecl
VisitObjCCategoryImplDecl(D) ==
  LET CI == D.ref
      CD == D.ref2
  IN call_VisitDecl(D, "ObjCImpl")
     \o beginObject(0 + B(CI # NULL) + B(CD # NULL), "obj_c_category_impl_decl_info")
     \o (IF CI # NULL THEN emitTag("class_interface") \o dumpDeclRef(Decl(CI)) ELSE <<>>)
     \o (IF CD # NULL THEN emitTag("category_decl") \o dumpDeclRef(Decl(CD)) ELSE <<>>)
     \o endObject

\* ASTExporter::VisitObjCProtocolDecl
VisitObjCProtocolDecl(D) ==
  LET HasProtocols == D.protocols # <<>>
  IN VisitObjCContainerDecl(D)
     \o beginObject(0 + B(HasProtocols), "obj_c_protocol_decl_info")
     \o (IF HasProtocols
         THEN emitTag("protocols")
              \o beginArray(Len(D.protocols)) \o dumpDeclRefs(D.protocols) \o endArray
         ELSE <<>>)
     \o endObject

\* ASTExporter::VisitObjCInterfaceDecl
VisitObjCInterfaceDecl(D) ==
  LET SC == D.ref
      Impl == D.ref2
      HasProtocols == D.protocols # <<>>
  IN VisitObjCContainerDecl(D)
     \o beginObject(0 + B(SC # NULL) + B(Impl # NULL) + B(HasProtocols),
                    "obj_c_interface_decl_info")
     \o (IF SC # NULL THEN emitTag("super") \o dumpDeclRef(Decl(SC)) ELSE <<>>)
     \o (IF Impl # NULL THEN emitTag("implementation") \o dumpDeclRef(Decl(Impl)) ELSE <<>>)
     \o (IF HasProtocols
         THEN emitTag("protocols")
              \o beginArray(Len(D.protocols)) \o dumpDeclRefs(D.protocols) \o endArray
         ELSE <<>>)
     \o endObject

\* ASTExporter::VisitObjCImplementationDecl
VisitObjCImplementationDecl(D) ==
  LET SC == D.ref
      CI == D.ref2
      HasInitializers == D.inits # <<>>
  IN call_VisitDecl(D, "ObjCImpl")
     \o beginObject(0 + B(SC # NULL) + B(CI # NULL) + B(HasInitializers),
                    "obj_c_implementation_decl_info")
     \o (IF SC # NULL THEN emitTag("super") \o dumpDeclRef(Decl(SC)) ELSE <<>>)
     \o (IF CI # NULL THEN emitTag("class_interface") \o dumpDeclRef(Decl(CI)) ELSE <<>>)
     \o (IF HasInitializers
         THEN emitTag("ivar_initializers")
              \o beginArray(Len(D.inits)) \o dumpCXXCtorInitializers(D.inits)
              \o endArray
         ELSE <<>>)
     \o endObject

\* ASTExporter::VisitObjCCompatibleAliasDecl
VisitObjCCompatibleAliasDecl(D) ==
  LET CI == D.ref
  IN VisitNamedDecl(D)
     \o beginObject(0 + B(CI # NULL), "obj_c_compatible_alias_decl_info")
     \o (IF CI # NULL THEN emitTag("class_interface") \o dumpDeclRef(Decl(CI)) ELSE <<>>)
     \o endObject

RECURSIVE emitPropertyAttributes(_, _)
\* The if-chain of VisitObjCPropertyDecl over the attribute bits that are set.
emitPropertyAttributes(D, attrs) ==
  IF attrs = <<>> THEN <<>>
  ELSE LET a == Head(attrs)
       IN (CASE a = "Getter" ->
                  beginVariant("Getter") \o dumpDeclRef(Decl(D.ref)) \o endVariant
             [] a = "Setter" ->
                  beginVariant("Setter") \o dumpDeclRef(Decl(D.ref2)) \o endVariant
             [] OTHER -> emitSimpleVariant(a))
          \o emitPropertyAttributes(D, Tail(attrs))

\* ASTExporter::VisitObjCPropertyDecl; propertyAttrs lists the bits of
\* getPropertyAttributes() that are set, in the order of the if-chain.
VisitObjCPropertyDecl(D) ==
  LET PC == D.control
      HasPropertyControl == PC # "None"
      Attrs == D.propertyAttrs
      HasPropertyAttributes == Attrs # <<>>
      toEmit == Len(Attrs)
  IN VisitNamedDecl(D)
     \o beginObject(1 + B(HasPropertyControl) + B(HasPropertyAttributes),
                    "obj_c_property_decl_info")
     \o emitTag("qual_type") \o dumpQualType(D.type)
     \o (IF HasPropertyControl
         THEN emitTag("property_control") \o emitSimpleVariant(PC)
         ELSE <<>>)
     \o (IF HasPropertyAttributes
         THEN emitTag("property_attributes")
              \o beginArray(toEmit) \o emitPropertyAttributes(D, Attrs) \o endArray
         ELSE <<>>)
     \o endObject

\* ASTExporter::VisitObjCPropertyImplDecl
VisitObjCPropertyImplDecl(D) ==
  LET PD == D.ref
      ID == D.ref2
  IN VisitDecl(D)
     \o beginObject(1 + B(PD # NULL) + B(ID # NULL), "obj_c_property_impl_decl_info")
     \o emitTag("implementation")
     \o (IF "IsDynamic" \in D.flags
         THEN emitSimpleVariant("Dynamic")
         ELSE emitSimpleVariant("Synthesize"))
     \o (IF PD # NULL THEN emitTag("property_decl") \o dumpDeclRef(Decl(PD)) ELSE <<>>)
     \o (IF ID # NULL THEN emitTag("ivar_decl") \o dumpDeclRef(Decl(ID)) ELSE <<>>)
     \o endObject

RECURSIVE dumpCapturedVariables(_)
\* The loop of VisitBlockDecl over the captures of the block.
dumpCapturedVariables(caps) ==
  IF caps = <<>> THEN <<>>
  ELSE LET CII == Head(caps)
           IsByRef == "IsByRef" \in CII.flags
           IsNested == "IsNested" \in CII.flags
           HasVariable == CII.variable # NULL
           HasCopyExpr == CII.copyExpr # NULL
       IN beginObject(0 + B(IsByRef) + B(IsNested) + B(HasVariable)
                        + B(HasCopyExpr), "block_captured_variable")
          \o emitFlag("is_by_ref", IsByRef)
          \o emitFlag("is_nested", IsNested)
          \o (IF HasVariable
              THEN emitTag("variable") \o dumpDeclRef(Decl(CII.variable))
              ELSE <<>>)
          \o (IF HasCopyExpr
              THEN emitTag("copy_expr") \o call_dumpStmt(Stmt(CII.copyExpr))
              ELSE <<>>)
          \o endObject
          \o dumpCapturedVariables(Tail(caps))

\* ASTExporter::VisitBlockDecl
VisitBlockDecl(D) ==
  LET HasParameters == D.params # <<>>
      IsVariadic == "IsVariadic" \in D.flags
      CapturesCXXThis == "CapturesCXXThis" \in D.flags
      HasCapturedVariables == D.captures # <<>>
      Body == D.body
      size == 0 + B(HasParameters) + B(IsVariadic) + B(CapturesCXXThis)
              + B(HasCapturedVariables) + B(Body # NULL)
  IN VisitDecl(D)
     \o call_VisitDeclContext(D)
     \o beginObject(size, "block_decl_info")
     \o (IF HasParameters
         THEN emitTag("parameters")
              \o beginArray(Len(D.params))
              \o dumpDecls(D.params, "VisitBlockDecl.parameters")
              \o endArray
         ELSE <<>>)
     \o emitFlag("is_variadic", IsVariadic)
     \o emitFlag("captures_cxx_this", CapturesCXXThis)
     \o (IF HasCapturedVariables
         THEN emitTag("captured_variables")
              \o beginArray(Len(D.captures)) \o dumpCapturedVariables(D.captures)
              \o endArray
         ELSE <<>>)
     \o (IF Body # NULL THEN emitTag("body") \o call_dumpStmt(Stmt(Body)) ELSE <<>>)
     \o endObject

\* ConstDeclVisitor: Visit##k##Decl(D), which is the exporter's visitor when
\* it defines one and the visitor of the base of k otherwise.
VisitDeclAs(D, k) ==
  CASE k = "" -> VisitDecl(D)
    [] k = "Captured" -> VisitCapturedDecl(D)
    [] k = "LinkageSpec" -> VisitLinkageSpecDecl(D)
    [] k = "Namespace" -> VisitNamespaceDecl(D)
    [] k = "ObjCContainer" -> VisitObjCContainerDecl(D)
    [] k = "Tag" -> VisitTagDecl(D)
    [] k = "Type" -> VisitTypeDecl(D)
    [] k = "Value" -> VisitValueDecl(D)
    [] k = "TranslationUnit" -> VisitTranslationUnitDecl(D)
    [] k = "Named" -> VisitNamedDecl(D)
    [] k = "Typedef" -> VisitTypedefDecl(D)
    [] k = "Enum" -> VisitEnumDecl(D)
    [] k = "Record" -> VisitRecordDecl(D)
    [] k = "EnumConstant" -> VisitEnumConstantDecl(D)
    [] k = "IndirectField" -> VisitIndirectFieldDecl(D)
    [] k = "Function" -> VisitFunctionDecl(D)
    [] k = "Field" -> VisitFieldDecl(D)
    [] k = "Var" -> VisitVarDecl(D)
    [] k = "FileScopeAsm" -> VisitFileScopeAsmDecl(D)
    [] k = "Import" -> VisitImportDecl(D)
    [] k = "UsingDirective" -> VisitUsingDirectiveDecl(D)
    [] k = "NamespaceAlias" -> VisitNamespaceAliasDecl(D)
    [] k = "CXXRecord" -> VisitCXXRecordDecl(D)
    [] k = "ObjCIvar" -> VisitObjCIvarDecl(D)
    [] k = "ObjCMethod" -> VisitObjCMethodDecl(D)
    [] k = "ObjCCategory" -> VisitObjCCategoryDecl(D)
    [] k = "ObjCCategoryImpl" -> VisitObjCCategoryImplDecl(D)
    [] k = "ObjCProtocol" -> VisitObjCProtocolDecl(D)
    [] k = "ObjCInterface" -> VisitObjCInterfaceDecl(D)
    [] k = "ObjCImplementation" -> VisitObjCImplementationDecl(D)
    [] k = "ObjCCompatibleAlias" -> VisitObjCCompatibleAliasDecl(D)
    [] k = "ObjCProperty" -> VisitObjCPropertyDecl(D)
    [] k = "ObjCPropertyImpl" -> VisitObjCPropertyImplDecl(D)
    [] k = "Block" -> VisitBlockDecl(D)
    [] OTHER -> call_VisitDecl(D, DeclBase[k])

\* ASTExporter::dumpDecl; site names the caller, for declLog only.
dumpDecl(D_, site) ==
  LET D == IF D_.ptr = NULL THEN NullPtrDecl ELSE D_
      enc == LogDecl(D.ptr, "value", site)
             \o beginVariant(D.kind \o "Decl")
             \o beginTuple(tupleSizeOfDeclKind(D.kind))
             \o call_VisitDecl(D, D.kind)
             \o endTuple
             \o endVariant
  IN IF D_.ptr = NULL THEN NullBegin("Decl") \o enc \o NullEnd("Decl") ELSE enc
----------------------------------------------------------------------------
\* Statements and expressions.

\* ASTExporter::VisitStmt
VisitStmt(S) ==
  beginObject(2, "stmt_info")
  \o emitTag("pointer") \o call_dumpPointer(S.ptr)
  \o emitTag("source_range") \o dumpSourceRange(S.range)
  \o endObject
  \o beginArray(Len(S.children)) \o dumpStmts(S.children) \o endArray

\* ASTExporter::VisitDeclStmt
VisitDeclStmt(Node) ==
  VisitStmt(Node)
  \o beginArray(Len(Node.decls)) \o dumpDecls(Node.decls, "VisitDeclStmt")
  \o endArray

\* ASTExporter::VisitAttributedStmt
VisitAttributedStmt(Node) ==
  VisitStmt(Node)
  \o beginArray(Len(Node.attrs)) \o dumpAttrs(Node.attrs) \o endArray

\* ASTExporter::VisitLabelStmt
VisitLabelStmt(Node) == VisitStmt(Node) \o emitString(Node.str)

\* ASTExporter::VisitGotoStmt; the label is the declaration Node.ref.
VisitGotoStmt(Node) ==
  VisitStmt(Node)
  \o beginObject(2, "goto_stmt_info")
  \o emitTag("label") \o emitString(Decl(Node.ref).name)
  \o emitTag("pointer") \o call_dumpPointer(Node.ref)
  \o endObject

\* ASTExporter::VisitCXXCatchStmt
VisitCXXCatchStmt(Node) ==
  LET decl == Node.decl
  IN VisitStmt(Node)
     \o beginObject(0 + B(decl # NULL), "cxx_catch_stmt_info")
     \o (IF decl # NULL
         THEN emitTag("variable") \o call_dumpDecl(Decl(decl), "VisitCXXCatchStmt")
         ELSE <<>>)
     \o endObject

\* ASTExporter::VisitExpr
VisitExpr(Node) ==
  LET VK == Node.valueKind
      HasNonDefaultValueKind == VK # "RValue"
      OK == Node.objectKind
      HasNonDefaultObjectKind == OK # "Ordinary"
  IN VisitStmt(Node)
     \o beginObject(1 + B(HasNonDefaultValueKind) + B(HasNonDefaultObjectKind),
                    "expr_info")
     \o emitTag("qual_type") \o dumpQualType(Node.type)
     \o (IF HasNonDefaultValueKind
         THEN emitTag("value_kind") \o emitSimpleVariant(VK)
         ELSE <<>>)
     \o (IF HasNonDefaultObjectKind
         THEN emitTag("object_kind") \o emitSimpleVariant(OK)
         ELSE <<>>)
     \o endObject

\* ASTExporter::dumpCXXBaseSpecifier
dumpCXXBaseSpecifier(Base) ==
  LET IsVirtual == Base.virtual
  IN beginObject(1 + B(IsVirtual), "cxx_base_specifier")
     \o emitTag("name") \o emitString(Base.name)
     \o emitFlag("virtual", IsVirtual)
     \o endObject

RECURSIVE dumpCXXBaseSpecifiers(_)
\* for (; I != E; ++I) dumpCXXBaseSpecifier(**I)
dumpCXXBaseSpecifiers(path) ==
  IF path = <<>> THEN <<>>
  ELSE dumpCXXBaseSpecifier(Head(path)) \o dumpCXXBaseSpecifiers(Tail(path))

\* ASTExporter::VisitCastExpr
VisitCastExpr(Node) ==
  VisitExpr(Node)
  \o beginObject(2, "cast_expr_info")
  \o emitTag("cast_kind") \o emitSimpleVariant(Node.op)
  \o emitTag("base_path")
  \o beginArray(Len(Node.bases)) \o dumpCXXBaseSpecifiers(Node.bases) \o endArray
  \o endObject

\* ASTExporter::VisitExplicitCastExpr
VisitExplicitCastExpr(Node) == VisitCastExpr(Node) \o dumpQualType(Node.type2)

\* ASTExporter::VisitDeclRefExpr
VisitDeclRefExpr(Node) ==
  LET D == Node.ref
      FD == Node.ref2
      HasFoundDeclRef == FD # NULL /\ D # FD
  IN VisitExpr(Node)
     \o beginObject(0 + B(D # NULL) + B(HasFoundDeclRef), "decl_ref_expr_info")
     \o (IF D # NULL THEN emitTag("decl_ref") \o dumpDeclRef(Decl(D)) ELSE <<>>)
     \o (IF HasFoundDeclRef
         THEN emitTag("found_decl_ref") \o dumpDeclRef(Decl(FD))
         ELSE <<>>)
     \o endObject

\* ASTExporter::VisitOverloadExpr
VisitOverloadExpr(Node) ==
  VisitExpr(Node)
  \o beginObject(2, "overload_expr_info")
  \o (IF Len(Node.decls) > 0
      THEN emitTag("decls")
           \o beginArray(Len(Node.decls)) \o dumpDeclRefs(Node.decls) \o endArray
      ELSE <<>>)
  \o emitTag("name") \o dumpDeclarationName(Node.name)
  \o endObject

\* ASTExporter::VisitUnresolvedLookupExpr
VisitUnresolvedLookupExpr(Node) ==
  LET RequiresADL == "RequiresADL" \in Node.flags
      IsOverloaded == "IsOverloaded" \in Node.flags
      HasNamingClass == Node.ref # NULL
  IN VisitOverloadExpr(Node)
     \o beginObject(0 + B(RequiresADL) + B(IsOverloaded) + B(HasNamingClass),
                    "unresolved_lookup_expr_info")
     \o emitFlag("requires_ADL", RequiresADL)
     \o emitFlag("is_overloaded", IsOverloaded)
     \o (IF HasNamingClass
         THEN emitTag("naming_class") \o dumpDeclRef(Decl(Node.ref))
         ELSE <<>>)
     \o endObject

\* ASTExporter::VisitObjCIvarRefExpr
VisitObjCIvarRefExpr(Node) ==
  LET IsFreeIvar == "IsFreeIvar" \in Node.flags
  IN VisitExpr(Node)
     \o beginObject(2 + B(IsFreeIvar), "obj_c_ivar_ref_expr_info")
     \o emitTag("decl_ref") \o dumpDeclRef(Decl(Node.ref))
     \o emitTag("pointer") \o call_dumpPointer(Node.ref)
     \o emitFlag("is_free_ivar", IsFreeIvar)
     \o endObject

\* ASTExporter::VisitPredefinedExpr; every PredefinedExpr::IdentType has a
\* case that writes its name.
VisitPredefinedExpr(Node) == VisitExpr(Node) \o emitSimpleVariant(Node.op)

\* ASTExporter::VisitCharacterLiteral
VisitCharacterLiteral(Node) == VisitExpr(Node) \o emitInteger(Node.int)

\* ASTExporter::VisitIntegerLiteral; int is the bit width of the value and
\* str its decimal text.
VisitIntegerLiteral(Node) ==
  LET IsSigned == "IsSigned" \in Node.flags
  IN VisitExpr(Node)
     \o beginObject(2 + B(IsSigned), "integer_literal_info")
     \o emitFlag("is_signed", IsSigned)
     \o emitTag("bitwidth") \o emitInteger(Node.int)
     \o emitTag("value") \o emitString(Node.str)
     \o endObject

\* ASTExporter::VisitFloatingLiteral
VisitFloatingLiteral(Node) == VisitExpr(Node) \o emitString(Node.str)

\* ASTExporter::VisitStringLiteral
VisitStringLiteral(Str) == VisitExpr(Str) \o emitString(Str.str)

\* ASTExporter::VisitUnaryOperator; every UnaryOperatorKind has a case that
\* writes its name.
VisitUnaryOperator(Node) ==
  LET IsPostfix == "IsPostfix" \in Node.flags
  IN VisitExpr(Node)
     \o beginObject(1 + B(IsPostfix), "unary_operator_info")
     \o emitTag("kind") \o emitSimpleVariant(Node.op)
     \o emitFlag("is_postfix", IsPostfix)
     \o endObject

\* ASTExporter::VisitUnaryExprOrTypeTraitExpr
VisitUnaryExprOrTypeTraitExpr(Node) ==
  LET HasQualType == "IsArgumentType" \in Node.flags
  IN VisitExpr(Node)
     \o beginObject(1 + B(HasQualType), "unary_expr_or_type_trait_expr_info")
     \o emitTag("kind") \o emitSimpleVariant(Node.op)
     \o (IF HasQualType
         THEN emitTag("qual_type") \o dumpQualType(Node.type2)
         ELSE <<>>)
     \o endObject

\* ASTExporter::VisitMemberExpr
VisitMemberExpr(Node) ==
  LET IsArrow == "IsArrow" \in Node.flags
      memberDecl == Decl(Node.ref)
  IN VisitExpr(Node)
     \o beginObject(2 + B(IsArrow), "member_expr_info")
     \o emitFlag("is_arrow", IsArrow)
     \o emitTag("name") \o dumpName(memberDecl)
     \o emitTag("decl_ref") \o dumpDeclRef(memberDecl)
     \o endObject

\* ASTExporter::VisitExtVectorElementExpr
VisitExtVectorElementExpr(Node) == VisitExpr(Node) \o emitString(Node.str)

\* ASTExporter::VisitBinaryOperator; every BinaryOperatorKind has a case
\* that writes its name.
VisitBinaryOperator(Node) ==
  VisitExpr(Node)
  \o beginObject(1, "binary_operator_info")
  \o emitTag("kind") \o emitSimpleVariant(Node.op)
  \o endObject

\* ASTExporter::VisitCompoundAssignOperator
VisitCompoundAssignOperator(Node) ==
  VisitBinaryOperator(Node)
  \o beginObject(2, "compound_assign_operator_info")
  \o emitTag("lhs_type") \o dumpQualType(Node.type2)
  \o emitTag("result_type") \o dumpQualType(Node.type)
  \o endObject

\* ASTExporter::VisitBlockExpr
VisitBlockExpr(Node) == VisitExpr(Node) \o call_dumpDecl(Decl(Node.decl), "VisitBlockExpr")

\* ASTExporter::VisitOpaqueValueExpr
VisitOpaqueValueExpr(Node) ==
  LET Source == Node.sub
  IN VisitExpr(Node)
     \o beginObject(0 + B(Source # NULL), "opaque_value_expr_info")
     \o (IF Source # NULL
         THEN emitTag("source_expr") \o call_dumpStmt(Stmt(Source))
         ELSE <<>>)
     \o endObject

\* ASTExporter::VisitAddrLabelExpr
VisitAddrLabelExpr(Node) ==
  VisitExpr(Node)
  \o beginObject(2, "addr_label_expr_info")
  \o emitTag("label") \o emitString(Decl(Node.ref).name)
  \o emitTag("pointer") \o call_dumpPointer(Node.ref)
  \o endObject

\* ASTExporter::VisitCXXNamedCastExpr
VisitCXXNamedCastExpr(Node) == VisitExplicitCastExpr(Node) \o emitString(Node.str)
\* ASTExporter::VisitCXXBoolLiteralExpr
VisitCXXBoolLiteralExpr(Node) == VisitExpr(Node) \o emitInteger(Node.int)

\* ASTExporter::VisitCXXConstructExpr; the constructor is Node.ref.
VisitCXXConstructExpr(Node) ==
  LET IsElidable == "IsElidable" \in Node.flags
      RequiresZeroInitialization == "RequiresZeroInitialization" \in Node.flags
      Ctor == Decl(Node.ref)
  IN VisitExpr(Node)
     \o beginObject(1 + B(IsElidable) + B(RequiresZeroInitialization),
                    "cxx_construct_expr_info")
     \o emitTag("qual_type") \o dumpQualType(Ctor.type)
     \o emitFlag("is_elidable", IsElidable)
     \o emitFlag("requires_zero_initialization", RequiresZeroInitialization)
     \o endObject

\* ASTExporter::dumpCXXTemporary
dumpCXXTemporary(Temporary) == call_dumpPointer(Temporary)

\* ASTExporter::VisitCXXBindTemporaryExpr
VisitCXXBindTemporaryExpr(Node) ==
  VisitExpr(Node)
  \o beginObject(1, "cxx_bind_temporary_expr_info")
  \o emitTag("cxx_temporary") \o dumpCXXTemporary(Node.temp)
  \o endObject

\* ASTExporter::VisitMaterializeTemporaryExpr
VisitMaterializeTemporaryExpr(Node) ==
  LET VD == Node.ref
  IN VisitExpr(Node)
     \o beginObject(0 + B(VD # NULL), "materialize_temporary_expr_info")
     \o (IF VD # NULL THEN emitTag("decl_ref") \o dumpDeclRef(Decl(VD)) ELSE <<>>)
     \o endObject

\* ASTExporter::VisitExprWithCleanups; decls are the objects of the node.
VisitExprWithCleanups(Node) ==
  LET HasDeclRefs == Len(Node.decls) > 0
  IN VisitExpr(Node)
     \o beginObject(1 + B(HasDeclRefs), "expr_with_cleanups_info")
     \o (IF HasDeclRefs
         THEN emitTag("decl_refs")
              \o beginArray(Len(Node.decls)) \o dumpDeclRefs(Node.decls) \o endArray
         ELSE <<>>)
     \o emitTag("sub_expr") \o call_dumpStmt(Stmt(Node.sub))
     \o endObject

\* ASTExporter::VisitLambdaExpr
VisitLambdaExpr(Node) == VisitExpr(Node) \o call_dumpDecl(Decl(Node.decl), "VisitLambdaExpr")

\* ASTExporter::VisitCXXNewExpr
VisitCXXNewExpr(Node) ==
  LET IsArray == "IsArray" \in Node.flags
      HasArraySize == Node.arraySize # NULL
      HasInitializer == "HasInitializer" \in Node.flags
  IN VisitExpr(Node)
     \o beginObject(0 + B(IsArray) + B(HasArraySize) + B(HasInitializer),
                    "cxx_new_expr_info")
     \o emitFlag("is_array", IsArray)
     \o (IF HasArraySize
         THEN emitTag("array_size_expr") \o call_dumpPointer(Node.arraySize)
         ELSE <<>>)
     \o (IF HasInitializer
         THEN emitTag("initializer_expr") \o call_dumpPointer(Node.initializer)
         ELSE <<>>)
     \o endObject

\* ASTExporter::VisitCXXDeleteExpr
VisitCXXDeleteExpr(Node) ==
  LET IsArray == "IsArray" \in Node.flags
  IN VisitExpr(Node)
     \o beginObject(0 + B(IsArray), "cxx_delete_expr_info")
     \o emitFlag("is_array", IsArray)
     \o endObject

\* ASTExporter::VisitObjCMessageExpr; privateMethod and method are what
\* lookupPrivateMethod and lookupMethod of the receiver interface return.
VisitObjCMessageExpr(Node) ==
  LET receiver == Node.receiver
      IsDefinitionFound == receiver # NULL /\ Node.privateMethod # NULL
      m_decl == IF receiver = NULL THEN NULL
                ELSE IF Node.privateMethod # NULL THEN Node.privateMethod
                ELSE Node.method
      RK == Node.receiverKind
      HasNonDefaultReceiverKind == RK # "Instance"
  IN VisitExpr(Node)
     \o beginObject(1 + B(IsDefinitionFound) + B(m_decl # NULL)
                      + B(HasNonDefaultReceiverKind), "obj_c_message_expr_info")
     \o emitTag("selector") \o emitString(Node.selector)
     \o (IF m_decl # NULL
         THEN emitFlag("is_definition_found", IsDefinitionFound)
              \o emitTag("decl_pointer") \o call_dumpPointer(m_decl)
         ELSE <<>>)
     \o (IF HasNonDefaultReceiverKind
         THEN emitTag("receiver_kind")
              \o (IF RK = "Class"
                  THEN beginVariant("Class") \o dumpQualType(Node.type2) \o endVariant
                  ELSE emitSimpleVariant(RK))
         ELSE <<>>)
     \o endObject

\* ASTExporter::dumpSelector
dumpSelector(sel) == emitString(sel)

\* ASTExporter::VisitObjCBoxedExpr
VisitObjCBoxedExpr(Node) == VisitExpr(Node) \o dumpSelector(Node.selector)

\* ASTExporter::VisitObjCAtCatchStmt
VisitObjCAtCatchStmt(Node) ==
  LET CatchParam == Node.decl
  IN VisitStmt(Node)
     \o (IF CatchParam # NULL
         THEN beginVariant("CatchParam")
              \o call_dumpDecl(Decl(CatchParam), "VisitObjCAtCatchStmt")
              \o endVariant
         ELSE emitSimpleVariant("CatchAll"))

\* ASTExporter::VisitObjCEncodeExpr
VisitObjCEncodeExpr(Node) == VisitExpr(Node) \o dumpQualType(Node.type2)

\* ASTExporter::VisitObjCSelectorExpr
VisitObjCSelectorExpr(Node) == VisitExpr(Node) \o dumpSelector(Node.selector)

\* ASTExporter::VisitObjCProtocolExpr
VisitObjCProtocolExpr(Node) == VisitExpr(Node) \o dumpDeclRef(Decl(Node.ref))

\* ASTExporter::VisitObjCPropertyRefExpr
VisitObjCPropertyRefExpr(Node) ==
  LET IsSuperReceiver == "IsSuperReceiver" \in Node.flags
      IsMessagingGetter == "IsMessagingGetter" \in Node.flags
      IsMessagingSetter == "IsMessagingSetter" \in Node.flags
      HasImplicitPropertyGetter == "HasGetter" \in Node.flags
      HasImplicitPropertySetter == "HasSetter" \in Node.flags
  IN VisitExpr(Node)
     \o beginObject(1 + B(IsSuperReceiver) + B(IsMessagingGetter)
                      + B(IsMessagingSetter), "obj_c_property_ref_expr_info")
     \o emitTag("kind")
     \o (IF "IsImplicitProperty" \in Node.flags
         THEN beginVariant("MethodRef")
              \o beginObject(0 + B(HasImplicitPropertyGetter)
                               + B(HasImplicitPropertySetter), "obj_c_method_ref_info")
              \o (IF HasImplicitPropertyGetter
                  THEN emitTag("getter") \o dumpSelector(Node.getter)
                  ELSE <<>>)
              \o (IF HasImplicitPropertySetter
                  THEN emitTag("setter") \o dumpSelector(Node.setter)
                  ELSE <<>>)
              \o endObject
              \o endVariant
         ELSE beginVariant("PropertyRef") \o dumpDeclRef(Decl(Node.ref))
              \o endVariant)
     \o emitFlag("is_super_receiver", IsSuperReceiver)
     \o emitFlag("is_messaging_getter", IsMessagingGetter)
     \o emitFlag("is_messaging_setter", IsMessagingSetter)
     \o endObject

\* ASTExporter::VisitObjCSubscriptRefExpr
VisitObjCSubscriptRefExpr(Node) ==
  LET HasGetter == "HasGetter" \in Node.flags
      HasSetter == "HasSetter" \in Node.flags
  IN VisitExpr(Node)
     \o beginObject(1 + B(HasGetter) + B(HasSetter), "obj_c_subscript_ref_expr_info")
     \o emitTag("kind")
     \o (IF "IsArraySubscriptRefExpr" \in Node.flags
         THEN emitSimpleVariant("ArraySubscript")
         ELSE emitSimpleVariant("DictionarySubscript"))
     \o (IF HasGetter THEN emitTag("getter") \o dumpSelector(Node.getter) ELSE <<>>)
     \o (IF HasSetter THEN emitTag("setter") \o dumpSelector(Node.setter) ELSE <<>>)
     \o endObject

\* ASTExporter::VisitObjCBoolLiteralExpr
VisitObjCBoolLiteralExpr(Node) == VisitExpr(Node) \o emitInteger(Node.int)

\* ConstStmtVisitor: Visit##c(S), which is the exporter's visitor when it
\* defines one and the visitor of the parent class of c otherwise.
VisitStmtAs(S, c) ==
  CASE c = "Stmt" -> VisitStmt(S)
    [] c = "DeclStmt" -> VisitDeclStmt(S)
    [] c = "AttributedStmt" -> VisitAttributedStmt(S)
    [] c = "LabelStmt" -> VisitLabelStmt(S)
    [] c = "GotoStmt" -> VisitGotoStmt(S)
    [] c = "CXXCatchStmt" -> VisitCXXCatchStmt(S)
    [] c = "Expr" -> VisitExpr(S)
    [] c = "CastExpr" -> VisitCastExpr(S)
    [] c = "ExplicitCastExpr" -> VisitExplicitCastExpr(S)
    [] c = "DeclRefExpr" -> VisitDeclRefExpr(S)
    [] c = "OverloadExpr" -> VisitOverloadExpr(S)
    [] c = "UnresolvedLookupExpr" -> VisitUnresolvedLookupExpr(S)
    [] c = "ObjCIvarRefExpr" -> VisitObjCIvarRefExpr(S)
    [] c = "PredefinedExpr" -> VisitPredefinedExpr(S)
    [] c = "CharacterLiteral" -> VisitCharacterLiteral(S)
    [] c = "IntegerLiteral" -> VisitIntegerLiteral(S)
    [] c = "FloatingLiteral" -> VisitFloatingLiteral(S)
    [] c = "StringLiteral" -> VisitStringLiteral(S)
    [] c = "UnaryOperator" -> VisitUnaryOperator(S)
    [] c = "UnaryExprOrTypeTraitExpr" -> VisitUnaryExprOrTypeTraitExpr(S)
    [] c = "MemberExpr" -> VisitMemberExpr(S)
    [] c = "ExtVectorElementExpr" -> VisitExtVectorElementExpr(S)
    [] c = "BinaryOperator" -> VisitBinaryOperator(S)
    [] c = "CompoundAssignOperator" -> VisitCompoundAssignOperator(S)
    [] c = "BlockExpr" -> VisitBlockExpr(S)
    [] c = "OpaqueValueExpr" -> VisitOpaqueValueExpr(S)
    [] c = "AddrLabelExpr" -> VisitAddrLabelExpr(S)
    [] c = "CXXNamedCastExpr" -> VisitCXXNamedCastExpr(S)
    [] c = "CXXBoolLiteralExpr" -> VisitCXXBoolLiteralExpr(S)
    [] c = "CXXConstructExpr" -> VisitCXXConstructExpr(S)
    [] c = "CXXBindTemporaryExpr" -> VisitCXXBindTemporaryExpr(S)
    [] c = "MaterializeTemporaryExpr" -> VisitMaterializeTemporaryExpr(S)
    [] c = "ExprWithCleanups" -> VisitExprWithCleanups(S)
    [] c = "LambdaExpr" -> VisitLambdaExpr(S)
    [] c = "CXXNewExpr" -> VisitCXXNewExpr(S)
    [] c = "CXXDeleteExpr" -> VisitCXXDeleteExpr(S)
    [] c = "ObjCMessageExpr" -> VisitObjCMessageExpr(S)
    [] c = "ObjCBoxedExpr" -> VisitObjCBoxedExpr(S)
    [] c = "ObjCAtCatchStmt" -> VisitObjCAtCatchStmt(S)
    [] c = "ObjCEncodeExpr" -> VisitObjCEncodeExpr(S)
    [] c = "ObjCSelectorExpr" -> VisitObjCSelectorExpr(S)
    [] c = "ObjCProtocolExpr" -> VisitObjCProtocolExpr(S)
    [] c = "ObjCPropertyRefExpr" -> VisitObjCPropertyRefExpr(S)
    [] c = "ObjCSubscriptRefExpr" -> VisitObjCSubscriptRefExpr(S)
    [] c = "ObjCBoolLiteralExpr" -> VisitObjCBoolLiteralExpr(S)
    [] OTHER -> call_VisitStmt(S, StmtBase[c])

\* ASTExporter::dumpStmt
dumpStmt(S_) ==
  LET S == IF S_.ptr = NULL THEN NullPtrStmt ELSE S_
      enc == beginVariant(S.class)
             \o beginTuple(tupleSizeOfStmtClass(S.class))
             \o call_VisitStmt(S, S.class)
             \o endTuple
             \o endVariant
  IN IF S_.ptr = NULL THEN NullBegin("Stmt") \o enc \o NullEnd("Stmt") ELSE enc
----------------------------------------------------------------------------
\* Comments.

\* clang/AST/CommentNodes.inc: the parent of every comment class.
CommentBase ==
  Derive("Comment", {"FullComment", "BlockContentComment",
                     "InlineContentComment", "VerbatimBlockLineComment"})
  @@ Derive("BlockContentComment", {"ParagraphComment", "BlockCommandComment"})
  @@ Derive("BlockCommandComment", {"ParamCommandComment", "TParamCommandComment",
                                    "VerbatimBlockComment", "VerbatimLineComment"})
  @@ Derive("InlineContentComment", {"TextComment", "InlineCommandComment",
                                     "HTMLTagComment"})
  @@ Derive("HTMLTagComment", {"HTMLStartTagComment", "HTMLEndTagComment"})

\* for (; I != E; ++I) dumpComment(*I)
RECURSIVE dumpComments(_)
dumpComments(ptrs) ==
  IF ptrs = <<>> THEN <<>>
  ELSE call_dumpComment(Comment(Head(ptrs))) \o dumpComments(Tail(ptrs))

\* What a build does at llvm_unreachable: it ends the process, or, where the
\* macro is __builtin_unreachable, it goes on past the code that follows
\* ("skip") or carries on with it ("carryOn").
UnreachableOutcomes == {"abort", "skip", "carryOn"}

\* ASTExporter::visitComment
visitComment(C) ==
  beginObject(2, "comment_info")
  \o emitTag("parent_pointer") \o call_dumpPointer(C.ptr)
  \o emitTag("source_range") \o dumpSourceRange(C.range)
  \o endObject
  \o beginArray(Len(C.children)) \o dumpComments(C.children) \o endArray

\* ASTExporter::visitTextComment
visitTextComment(C) == visitComment(C) \o emitString(C.text)

\* ConstCommentVisitor::visit: the switch over getCommentKind(), whose
\* default is llvm_unreachable("Unknown comment kind!").
visit(C) ==
  CASE C.kind = "TextComment" -> visitTextComment(C)
    [] C.kind \in DOMAIN CommentBase -> visitComment(C)
    [] OTHER -> llvm_unreachable("Unknown comment kind!", visitComment(C))

\* ASTExporter::dumpComment
dumpComment(C_) ==
  LET C == IF C_.ptr = NULL THEN NullPtrComment ELSE C_
      enc == beginVariant(C.kind)
             \o beginTuple(NoSize)
             \o visit(C)
             \o endTuple
             \o endVariant
  IN IF C_.ptr = NULL THEN NullBegin("Comment") \o enc \o NullEnd("Comment") ELSE enc

----------------------------------------------------------------------------
\* Types.

\* clang/AST/TypeNodes.def: the base of every type class that has one other
\* than Type.
TypeBase ==
  Derive("Adjusted", {"Decayed"})
  @@ Derive("Array", {"ConstantArray", "IncompleteArray", "VariableArray",
                      "DependentSizedArray"})
  @@ Derive("Function", {"FunctionProto", "FunctionNoProto"})
  @@ Derive("Reference", {"LValueReference", "RValueReference"})
  @@ Derive("Tag", {"Record", "Enum"})
  @@ Derive("Vector", {"ExtVector"})
  @@ Derive("ObjCObject", {"ObjCInterface"})

\* ASTExporter::VisitType; T is the null node when dumpType is given null.
VisitType(T) ==
  LET HasDesugaredType == T.ptr # NULL /\ T.desugared # T.ptr
  IN beginObject(2 + B(HasDesugaredType), "type_info")
     \o emitTag("pointer") \o call_dumpPointer(T.ptr)
     \o emitTag("raw") \o emitString(T.raw)
     \o (IF HasDesugaredType
         THEN emitTag("desugared_type") \o dumpPointerToType(T.desugared)
         ELSE <<>>)
     \o endObject

\* VisitAdjustedType, VisitArrayType, VisitAtomicType, VisitBlockPointerType,
\* VisitDecltypeType, VisitMemberPointerType, VisitObjCObjectPointerType,
\* VisitParenType, VisitPointerType and VisitReferenceType are the same two
\* statements: VisitType(T); dumpPointerToType(<the type T refers to>).
VisitTypeWithChild(T) == VisitType(T) \o dumpPointerToType(T.child)

\* ASTExporter::VisitConstantArrayType
VisitConstantArrayType(T) == VisitTypeWithChild(T) \o emitInteger(T.int)

\* ASTExporter::VisitBuiltinType; BuiltinTypes.def gives every kind a case.
VisitBuiltinType(T) == VisitType(T) \o emitSimpleVariant(T.kind)

\* ASTExporter::VisitFunctionType
VisitFunctionType(T) ==
  VisitType(T)
  \o beginObject(1, "function_type_info")
  \o emitTag("return_type") \o dumpPointerToType(T.child)
  \o endObject

\* ASTExporter::VisitFunctionProtoType
VisitFunctionProtoType(T) ==
  LET HasParamsType == Len(T.params) > 0
  IN VisitFunctionType(T)
     \o beginObject(0 + B(HasParamsType), "params_type_info")
     \o (IF HasParamsType
         THEN emitTag("params_type")
              \o beginArray(Len(T.params)) \o dumpPointers(T.params) \o endArray
         ELSE <<>>)
     \o endObject

\* ASTExporter::VisitObjCObjectType
VisitObjCObjectType(T) ==
  LET numProtocols == Len(T.protocols)
      HasProtocols == numProtocols > 0
  IN VisitType(T)
     \o beginObject(1 + B(HasProtocols), "objc_object_type_info")
     \o emitTag("base_type") \o dumpPointerToType(T.child)
     \o (IF HasProtocols
         THEN emitTag("protocol_decls_ptr")
              \o beginArray(numProtocols) \o dumpPointers(T.protocols) \o endArray
         ELSE <<>>)
     \o endObject

\* ASTExporter::VisitObjCInterfaceType
VisitObjCInterfaceType(T) == VisitType(T) \o call_dumpPointer(T.decl)

\* ASTExporter::VisitTagType
VisitTagType(T) == VisitType(T) \o call_dumpPointer(T.decl)

\* ASTExporter::VisitTypedefType
VisitTypedefType(T) ==
  VisitType(T)
  \o beginObject(2, "typedef_type_info")
  \o emitTag("child_type") \o dumpPointerToType(T.child)
  \o emitTag("decl_ptr") \o call_dumpPointer(T.decl)
  \o endObject

RECURSIVE VisitTypeAs(_, _)
\* TypeVisitor: Visit##c##Type(T), which is the exporter's visitor when it
\* defines one and the visitor of the base of c otherwise.
VisitTypeAs(T, c) ==
  CASE c \in {"Adjusted", "Array", "Atomic", "BlockPointer", "Decltype",
              "MemberPointer", "ObjCObjectPointer", "Paren", "Pointer",
              "Reference"} -> VisitTypeWithChild(T)
    [] c = "ConstantArray" -> VisitConstantArrayType(T)
    [] c = "Builtin" -> VisitBuiltinType(T)
    [] c = "Function" -> VisitFunctionType(T)
    [] c = "FunctionProto" -> VisitFunctionProtoType(T)
    [] c = "ObjCObject" -> VisitObjCObjectType(T)
    [] c = "ObjCInterface" -> VisitObjCInterfaceType(T)
    [] c = "Tag" -> VisitTagType(T)
    [] c = "Typedef" -> VisitTypedefType(T)
    [] c \in DOMAIN TypeBase -> VisitTypeAs(T, TypeBase[c])
    [] OTHER -> VisitType(T)

\* ASTExporter::dumpType
dumpType(T) ==
  LET typeClassName == IF T.ptr # NULL THEN T.class ELSE "None"
      enc == beginVariant(typeClassName \o "Type")
             \o beginTuple(NoSize)
             \o (IF T.ptr # NULL THEN VisitTypeAs(T, T.class) ELSE VisitType(NoType))
             \o endTuple
             \o endVariant
  IN IF T.ptr = NULL THEN NullBegin("Type") \o enc \o NullEnd("Type") ELSE enc
----------------------------------------------------------------------------
\* Executing the calls a method makes.

\* The pointer token written last.
LastToken(st) == st.ptrLog[Len(st.ptrLog)][2]

\* The concatenation of the sequences parts[lo .. hi].
RECURSIVE Flatten(_, _, _)
Flatten(parts, lo, hi) ==
  IF lo > hi THEN <<>>
  ELSE IF lo = hi THEN parts[lo]
  ELSE Flatten(parts, lo, (lo + hi) \div 2)
       \o Flatten(parts, (lo + hi) \div 2 + 1, hi)

\* The calls that the calls calls_ come to, in order, once every call of a
\* method is replaced by the calls the method makes.  What follows an
\* llvm_unreachable depends on the build and is decided when it is executed.
\* A call of a method, and the calls the method makes when it is called.
IsMethodCall(e) ==
  e.op \in {"dumpDecl", "dumpStmt", "dumpComment", "dumpType", "VisitDecl",
            "VisitStmt", "VisitDeclContext"}
BodyOf(ds, e) ==
  CASE e.op = "dumpDecl" -> dumpDecl(e.node, e.s)
    [] e.op = "VisitDeclContext" -> VisitDeclContext(ds, e.node)
    [] e.op = "dumpStmt" -> dumpStmt(e.node)
    [] e.op = "dumpComment" -> dumpComment(e.node)
    [] e.op = "dumpType" -> dumpType(e.node)
    [] e.op = "VisitDecl" -> VisitDeclAs(e.node, e.s)
    [] e.op = "VisitStmt" -> VisitStmtAs(e.node, e.s)

RECURSIVE Expand(_, _), ExpandOne(_, _)
Expand(ds, calls_) ==
  CHOOSE r \in {Flatten(parts, 1, Len(parts)) :
                 parts \in {[i \in 1 .. Len(calls_) |-> ExpandOne(ds, calls_[i])]}} : TRUE

ExpandOne(ds, e) == IF IsMethodCall(e) THEN Expand(ds, BodyOf(ds, e)) ELSE <<e>>

\* History: tupleSizeOf... is entered for a kind; it returns a size.
Lookup(kind) == <<[op |-> "lookup", n |-> 0, s |-> kind]>>
Return(size) == <<[op |-> "return", n |-> size, s |-> ""]>>

\* TupleSizeBase::tupleSizeOfDeclKind, as a call: the switch returns in every
\* case it has; after it, llvm_unreachable, and then the end of a function
\* that returns int, where the caller reads g.
call_tupleSizeOfDeclKind(kind, g) ==
  Lookup(kind)
  \o (IF kind \in DeclKinds
      THEN Return(tupleSizeOfDeclKind(kind))
      ELSE llvm_unreachable("Decl that isn't part of DeclNodes.inc!", Return(g)))

\* TupleSizeBase::tupleSizeOfStmtClass, as a call: case Stmt::NoStmtClass
\* breaks out of the switch.
call_tupleSizeOfStmtClass(stmtClass, g) ==
  Lookup(stmtClass)
  \o (IF stmtClass \in StmtClasses
      THEN Return(tupleSizeOfStmtClass(stmtClass))
      ELSE llvm_unreachable("Stmt that isn't part of StmtNodes.inc!", Return(g)))

RECURSIVE apply(_, _, _, _), step(_, _), Run(_, _)

\* The calls calls[lo .. hi] are made in order from the state st; nothing
\* is executed after the process has ended.  The state after the first half
\* is computed once: l ranges over the one state it is.
apply(st, calls_, lo, hi) ==
  IF lo > hi THEN st
  ELSE IF lo = hi THEN step(st, calls_[lo])
  ELSE LET mid == (lo + hi) \div 2
       IN CHOOSE r \in {IF l.aborted THEN l ELSE apply(l, calls_, mid + 1, hi) :
                         l \in {apply(st, calls_, lo, mid)}} : TRUE

\* The state after the calls of a method, made from the state st.
Run(st, calls_) ==
  CHOOSE r \in {apply(s, c, 1, Len(c)) : s \in {st}, c \in {Expand(st.deduplicationService, calls_)}} : TRUE

\* One call e is made from the state st.
step(st, e) ==
  CASE e.op = "dumpPointer" -> dumpPointer(st, e.n)
    [] e.op = "dumpSourceLocation" -> dumpSourceLocation(st, e.loc)
    [] e.op = "LogDecl" ->
         [st EXCEPT !.declLog =
            Append(@, [ptr |-> e.n, how |-> e.s, site |-> e.site,
                       at |-> Len(st.OF) + 1,
                       tok |-> IF e.s \in {"value", "filter", "scope"} THEN ""
                              ELSE LastToken(st)])]
    [] e.op = "NullBegin" ->
         [st EXCEPT !.nullLog =
            Append(@, [family |-> e.s, from |-> Len(st.OF) + 1, to |-> 0])]
    [] e.op = "NullEnd" ->
         LET i == CHOOSE i \in 1 .. Len(st.nullLog) :
                    /\ st.nullLog[i].to = 0
                    /\ \A j \in i + 1 .. Len(st.nullLog) : st.nullLog[j].to # 0
         IN [st EXCEPT !.nullLog[i].to = Len(st.OF)]
    [] e.op = "lookup" ->
         [st EXCEPT !.lookup = [kind |-> e.s, returned |-> FALSE, size |-> 0,
                                build |-> st.unreachable]]
    [] e.op = "return" ->
         [st EXCEPT !.lookup.returned = TRUE, !.lookup.size = e.n]
    [] e.op = "llvm_unreachable" ->
         CASE st.unreachable = "abort" -> [st EXCEPT !.aborted = TRUE]
           [] st.unreachable = "skip" -> st
           [] OTHER -> Run(st, e.alt)
    [] OTHER -> write(st, <<e>>)

----------------------------------------------------------------------------
\* The exporter.

\* No tuple-size lookup has been made as an entry point.
NoLookup == [kind |-> "", returned |-> FALSE, size |-> 0, build |-> "abort"]

\* ASTExporter::ASTExporter: the state of the exporter after construction,
\* given the option and what the globals hold.
Constructed(wp, pm, pc) ==
  [OF |-> <<>>, withPointers |-> wp,
   deduplicationService |-> deduplicationService, pointerMap |-> pm, pointerCounter |-> pc,
   LastLocFilename |-> "", LastLocLine |-> UIntMax, aborted |-> FALSE,
   ptrLog |-> <<>>, locLog |-> <<>>, declLog |-> <<>>, nullLog |-> <<>>,
   calls |-> 0, unreachable |-> "abort", lookup |-> NoLookup,
   pending |-> <<>>, freshProcess |-> freshProcess]

\* std::unordered_map<const void*, int> pointerMap, as the process starts.
EmptyMap == [p \in {} |-> 0]

\* The process starts and constructs its first exporter.
Init == \E wp \in BOOLEAN, ds \in BOOLEAN :
  /\ OF = <<>>
  /\ withPointers = wp
  /\ deduplicationService = ds
  /\ pointerMap = EmptyMap
  /\ pointerCounter = 0
  /\ LastLocFilename = ""
  /\ LastLocLine = UIntMax
  /\ aborted = FALSE
  /\ ptrLog = <<>>
  /\ locLog = <<>>
  /\ declLog = <<>>
  /\ nullLog = <<>>
  /\ calls = 0
  /\ unreachable = "abort"
  /\ lookup = NoLookup
  /\ pending = <<>>
  /\ freshProcess = TRUE

\* A further exporter is constructed in the same process, for a new run:
\* the globals pointerMap and pointerCounter are not touched by the
\* constructor.
NewExporter(wp) ==
  Commit([Constructed(wp, pointerMap, pointerCounter) EXCEPT !.freshProcess = FALSE])

\* Entry point dumpSourceLocation(Loc).
DumpSourceLocation(l) ==
  /\ Len(locLog) < MaxLocs
  /\ Commit(Called(dumpSourceLocation(St, l)))

\* Entry point dumpPointer(Ptr).
Pointers == 0 .. 3
DumpPointer(p) ==
  /\ Len(ptrLog) < MaxPtrCalls
  /\ Commit(Called(dumpPointer(St, p)))

NextLoc == \/ \E l \in Locs : DumpSourceLocation(l)
           \/ \E wp \in BOOLEAN : NewExporter(wp)
SpecLoc == Init /\ [][NextLoc]_vars

NextPtr == \/ \E p \in Pointers : DumpPointer(p)
           \/ \E wp \in BOOLEAN : NewExporter(wp)
SpecPtr == Init /\ [][NextPtr]_vars

----------------------------------------------------------------------------
\* The traversal specification: the public entry points applied to the
\* translation unit above by one exporter.

DeclInputs == {NULL, 1, 3, 8, 14}
StmtInputs == {NULL, 27}
TypeInputs == {NULL, 32}
CommentInputs == {NULL, 40}
DeclRefInputs == {3, 9, 14}

\* Entry point dumpDecl(D).
DumpDecl(p) ==
  /\ ~aborted
  /\ calls < MaxCalls
  /\ Commit(Called(Run(St, dumpDecl(Decl(p), "entry"))))

\* Entry point dumpStmt(S).
DumpStmt(p) ==
  /\ ~aborted
  /\ calls < MaxCalls
  /\ Commit(Called(Run(St, dumpStmt(Stmt(p)))))

\* Entry point dumpType(T).
DumpType(p) ==
  /\ ~aborted
  /\ calls < MaxCalls
  /\ Commit(Called(Run(St, dumpType(Type(p)))))

\* Entry point dumpComment(C); u is what an llvm_unreachable reached by the
\* call does in this build.
DumpComment(p, u) ==
  /\ ~aborted
  /\ calls < MaxCalls
  /\ Commit(Called(Run([St EXCEPT !.unreachable = u], dumpComment(Comment(p)))))

\* The kinds the tuple-size lookups are asked for: one of the taxonomy and
\* one that has no case in the switch.
DeclKindInputs == {"Function", "OutsideDeclNodes"}
StmtClassInputs == {"DeclRefExpr", "NoStmtClass"}
\* What a function that flows off its end may be seen to return.
IndeterminateSizes == {0, UIntMax}

\* Entry point tupleSizeOfDeclKind(kind); u is what the llvm_unreachable
\* after the switch does in this build and g what the caller then reads.
TupleSizeOfDeclKind(kind) ==
  /\ ~aborted
  /\ calls < MaxCalls
  /\ \E u \in UnreachableOutcomes, g \in IndeterminateSizes :
       /\ kind \in DeclKinds => u = unreachable /\ g = 0
       /\ Commit(Called(Run([St EXCEPT !.unreachable = u],
                             call_tupleSizeOfDeclKind(kind, g))))

\* Entry point tupleSizeOfStmtClass(stmtClass).
TupleSizeOfStmtClass(stmtClass) ==
  /\ ~aborted
  /\ calls < MaxCalls
  /\ \E u \in UnreachableOutcomes, g \in IndeterminateSizes :
       /\ stmtClass \in StmtClasses => u = unreachable /\ g = 0
       /\ Commit(Called(Run([St EXCEPT !.unreachable = u],
                             call_tupleSizeOfStmtClass(stmtClass, g))))

\* Entry point dumpDeclRef(D).
DumpDeclRef(p) ==
  /\ ~aborted
  /\ calls < MaxCalls
  /\ Commit(Called(Run(St, dumpDeclRef(Decl(p)))))

NextAST == \/ \E p \in DeclInputs : DumpDecl(p)
           \/ \E p \in StmtInputs : DumpStmt(p)
           \/ \E p \in TypeInputs : DumpType(p)
           \/ \E p \in CommentInputs, u \in UnreachableOutcomes : DumpComment(p, u)
           \/ \E p \in DeclRefInputs : DumpDeclRef(p)
           \/ \E k \in DeclKindInputs : TupleSizeOfDeclKind(k)
           \/ \E c \in StmtClassInputs : TupleSizeOfStmtClass(c)
SpecAST == Init /\ [][NextAST]_vars

----------------------------------------------------------------------------
\* The export specification: one export of the translation unit, made call
\* by call.  pending holds the calls still to be made: the rest of every
\* method that is on the stack.

\* The translation units an export is started at.
ExportRoots == {1, 16}

\* The export starts: dumpDecl is called with a translation unit; u is what
\* an llvm_unreachable reached by the export does in this build.
StartExport ==
  /\ ~aborted
  /\ calls = 0
  /\ pending = <<>>
  /\ OF = <<>>
  /\ \E r \in ExportRoots, u \in UnreachableOutcomes :
       Commit([St EXCEPT !.unreachable = u,
                         !.pending = call_dumpDecl(Decl(r), "entry")])

\* The next call of the export is made from the state st: a call of a method
\* is entered, and the calls of its body come before the rest; any other call
\* acts on the exporter.
Advance(st) ==
  IF IsMethodCall(Head(st.pending))
  THEN [st EXCEPT !.pending = BodyOf(st.deduplicationService, Head(st.pending)) \o Tail(st.pending)]
  ELSE [step(st, Head(st.pending)) EXCEPT !.pending = Tail(st.pending)]

\* The export returns to its caller when no call is left.
Returned(st) == IF st.pending = <<>> /\ ~st.aborted THEN Called(st) ELSE st

StepExport ==
  /\ ~aborted
  /\ pending # <<>>
  /\ Len(OF) < MaxOutput
  /\ \E next \in {Advance(St)} : Commit(Returned(next))

\* The export runs by itself: a call that can be made is made.
NextRun == StartExport \/ StepExport
SpecRun == Init /\ [][NextRun]_vars /\ WF_vars(NextRun)
----------------------------------------------------------------------------
\* The sweep specification: one node of every concrete kind, with every
\* combination of what each visitor of its chain tests, is encoded by a
\* fresh exporter.  A node is made from its kind and a set of features: the
\* boolean getters that are true and the optional parts that are present.

\* What the visitors test: <<v, g>> is a group g of features that the
\* visitor of v, or what it calls, tests in a declaration that is a v.
DeclFeatureGroups ==
  { <<"", {"ShouldEmitParentPointer", "M", "IsHidden", "Comment"}>>,
    <<"", {"IsDImplicit", "IsDUsed", "IsDReferenced", "IsDInvalid"}>>,
    <<"Empty", {"ShouldEmitParentPointer", "M", "IsHidden", "IsDImplicit",
                "IsDUsed", "IsDReferenced", "IsDInvalid", "Comment"}>>,
    <<"Empty", {"Attrs", "IsInherited", "IsImplicit"}>>,
    <<"Captured", {"Members", "HasExternalLexicalStorage",
                   "HasExternalVisibleStorage"}>>,
    <<"TranslationUnit", {"Members", "HasExternalLexicalStorage",
                          "HasExternalVisibleStorage"}>>,
    <<"Namespace", {"Members", "HasExternalLexicalStorage", "IsInline", "Ref"}>>,
    <<"Type", {"TypeForDecl"}>>,
    <<"Value", {"Sugar"}>>,
    <<"Typedef", {"IsModulePrivate"}>>,
    <<"Enum", {"IsScoped", "IsScopedUsingClassTag", "IsModulePrivate"}>>,
    <<"Record", {"IsModulePrivate", "IsCompleteDefinition"}>>,
    <<"EnumConstant", {"HasInit"}>>,
    <<"IndirectField", {"Chain"}>>,
    <<"Function", {"HasStorageClass", "IsInlineSpecified", "IsVirtualAsWritten",
                   "IsModulePrivate", "IsPure", "IsDeletedAsWritten"}>>,
    <<"Function", {"HasDeclarationBody", "ProtoDecls", "HasParameters", "Body"}>>,
    <<"CXXConstructor", {"Inits", "Delegating", "BaseClass", "InitExpr",
                         "HasDeclarationBody", "Body"}>>,
    <<"Field", {"IsMutable", "IsModulePrivate", "IsBitField", "BitWidth",
                "HasInit"}>>,
    <<"Var", {"HasStorageClass", "TLS_Static", "TLS_Dynamic", "IsModulePrivate",
              "IsNRVOVariable", "HasInit"}>>,
    <<"UsingDirective", {"Ref", "NNS", "NNSType"}>>,
    <<"NamespaceAlias", {"NNS", "NNSType"}>>,
    <<"CXXRecord", {"IsCompleteDefinition", "Bases", "VBases", "IsCLike"}>>,
    <<"ObjCIvar", {"IsSynthesize", "Access"}>>,
    <<"ObjCMethod", {"IsInstanceMethod", "HasParameters", "IsVariadic", "Body"}>>,
    <<"ObjCCategory", {"Ref", "Ref2", "HasProtocols"}>>,
    <<"ObjCCategoryImpl", {"Ref", "Ref2"}>>,
    <<"ObjCProtocol", {"HasProtocols"}>>,
    <<"ObjCInterface", {"Ref", "Ref2", "HasProtocols"}>>,
    <<"ObjCImplementation", {"Ref", "Ref2", "Inits"}>>,
    <<"ObjCCompatibleAlias", {"Ref"}>>,
    <<"ObjCProperty", {"Control", "Assign", "Getter", "Setter"}>>,
    <<"ObjCPropertyImpl", {"IsDynamic", "Ref", "Ref2"}>>,
    <<"Block", {"Members", "HasParameters", "IsVariadic", "CapturesCXXThis",
                "HasCapturedVariables", "Body"}>>,
    <<"Block", {"HasCapturedVariables", "IsByRef", "IsNested", "HasVariable",
                "HasCopyExpr"}>> }

AllDeclFeatures == UNION {g[2] : g \in DeclFeatureGroups}

\* The feature sets a declaration of kind k is made with.
DeclFeatureSets(k) ==
  {{}, AllDeclFeatures}
  \cup UNION {SUBSET g[2] : g \in {g \in DeclFeatureGroups : DeclIsA(k, g[1])}}

\* If(fs, f, x, y): x when the feature f is in fs, else y.
If(fs, f, x, y) == IF f \in fs THEN x ELSE y

\* The address of the node a sweep encodes.
SweepPtr == 60

\* The declaration of kind k with the features fs.
MakeDecl(k, fs) ==
  [NoDecl EXCEPT
     !.ptr = SweepPtr, !.kind = k, !.flags = fs,
     !.range = <<L(1, 1), L(1, 2)>>,
     !.name = "d", !.qualName = <<"N", ":", ":", "d">>,
     !.type = If(fs, "Sugar", 32, 30),
     !.typeForDecl = If(fs, "TypeForDecl", 32, NULL),
     !.parent = 2,
     !.module = If(fs, "M", "M", ""),
     !.attrs = If(fs, "Attrs",
                  <<[ptr |-> 50, kind |-> "Unused", range |-> NoRange,
                     dump |-> <<Streamed("p")>>,
                     flags |-> fs \cap {"IsInherited", "IsImplicit"}]>>, <<>>),
     !.comment = If(fs, "Comment", 42, NULL),
     !.members = If(fs, "Members", <<9>>, <<>>),
     !.params = If(fs, "HasParameters", <<9>>, <<>>),
     !.protoDecls = If(fs, "ProtoDecls", <<10>>, <<>>),
     !.inits = If(fs, "Inits",
                  <<[member |-> If(fs, "Delegating", NULL,
                                   If(fs, "BaseClass", NULL, 9)),
                     delegating |-> "Delegating" \in fs, type |-> 30,
                     baseVirtual |-> FALSE,
                     init |-> If(fs, "InitExpr", 26, NULL)]>>, <<>>),
     !.body = If(fs, "Body", 28, NULL),
     !.init = If(fs, "HasInit", 26, NULL),
     !.bitWidth = If(fs, "BitWidth", 26, NULL),
     !.chain = If(fs, "Chain", <<9>>, <<>>),
     !.ref = IF "Ref" \in fs \/ k = "NamespaceAlias" \/ "Getter" \in fs
             THEN 2 ELSE NULL,
     !.ref2 = IF "Ref2" \in fs \/ "Setter" \in fs THEN 3 ELSE NULL,
     !.locs = <<L(1, 1), InvalidLoc>>,
     !.nns = If(fs, "NNS", <<[kind |-> "Namespace", ref |-> 2]>>, <<>>)
             \o If(fs, "NNSType", <<[kind |-> "TypeSpec", ref |-> NULL]>>, <<>>),
     !.bases = If(fs, "Bases", <<[type |-> 30, virtual |-> FALSE]>>, <<>>)
               \o If(fs, "VBases", <<[type |-> 32, virtual |-> TRUE]>>, <<>>),
     !.captures = If(fs, "HasCapturedVariables",
                     <<[flags |-> fs \cap {"IsByRef", "IsNested"},
                        variable |-> If(fs, "HasVariable", 9, NULL),
                        copyExpr |-> If(fs, "HasCopyExpr", 26, NULL)]>>, <<>>),
     !.str = "s",
     !.access = If(fs, "Access", "Private", "None"),
     !.control = If(fs, "Control", "Required", "None"),
     !.propertyAttrs = If(fs, "Assign", <<"Assign">>, <<>>)
                       \o If(fs, "Getter", <<"Getter">>, <<>>)
                       \o If(fs, "Setter", <<"Setter">>, <<>>),
     !.protocols = If(fs, "HasProtocols", <<2>>, <<>>),
     !.primary = 2]

\* Entry point dumpDecl(D), as the first call on a fresh exporter.
SweepDecl(D) ==
  /\ calls = 0
  /\ Commit(Called(Run(St, dumpDecl(D, "entry"))))

\* Entry point dumpDeclRef(D), likewise.
SweepDeclRef(D) ==
  /\ calls = 0
  /\ Commit(Called(Run(St, dumpDeclRef(D))))

\* The qualified names of the sweep, character by character: every string
\* of letters and colons up to the bound; and a namespace with such a name.
NameInputs == UNION {[1 .. n -> {"a", ":"}] : n \in 0 .. MaxNameLen}
NamedDecl(q) == [MakeDecl("Namespace", {}) EXCEPT !.qualName = q]

\* Entry point dumpLookups(DC); DC is the declaration context at p, with
\* the one at q as its primary context.
SweepLookups(p, q) ==
  /\ calls = 0
  /\ Commit(Called(Run(St, dumpLookups([Decl(p) EXCEPT !.primary = q]))))

\* What the statement visitors test, as for declarations.
StmtFeatureGroups ==
  { <<"Stmt", {"Children"}>>,
    <<"Expr", {"LValue", "BitField", "Sugar"}>>,
    <<"DeclStmt", {"Decls"}>>,
    <<"AttributedStmt", {"Attrs", "IsInherited", "IsImplicit"}>>,
    <<"CXXCatchStmt", {"Decl"}>>,
    <<"CastExpr", {"BasePath", "IsVirtual"}>>,
    <<"DeclRefExpr", {"Ref", "Ref2"}>>,
    <<"OverloadExpr", {"Decls"}>>,
    <<"UnresolvedLookupExpr", {"RequiresADL", "IsOverloaded", "Ref"}>>,
    <<"ObjCIvarRefExpr", {"IsFreeIvar"}>>,
    <<"IntegerLiteral", {"IsSigned"}>>,
    <<"UnaryOperator", {"IsPostfix"}>>,
    <<"UnaryExprOrTypeTraitExpr", {"IsArgumentType"}>>,
    <<"MemberExpr", {"IsArrow"}>>,
    <<"OpaqueValueExpr", {"Sub"}>>,
    <<"CXXConstructExpr", {"IsElidable", "RequiresZeroInitialization"}>>,
    <<"MaterializeTemporaryExpr", {"Ref"}>>,
    <<"ExprWithCleanups", {"Decls"}>>,
    <<"CXXNewExpr", {"IsArray", "ArraySize", "HasInitializer"}>>,
    <<"CXXDeleteExpr", {"IsArray"}>>,
    <<"ObjCMessageExpr", {"Receiver", "PrivateMethod", "Method", "ClassReceiver",
                          "SuperReceiver"}>>,
    <<"ObjCAtCatchStmt", {"Decl"}>>,
    <<"ObjCPropertyRefExpr", {"IsSuperReceiver", "IsMessagingGetter",
                              "IsMessagingSetter", "IsImplicitProperty",
                              "HasGetter", "HasSetter"}>>,
    <<"ObjCSubscriptRefExpr", {"HasGetter", "HasSetter",
                               "IsArraySubscriptRefExpr"}>> }

AllStmtFeatures == UNION {g[2] : g \in StmtFeatureGroups}

\* The feature sets a statement of class c is made with.
StmtFeatureSets(c) ==
  {{}, AllStmtFeatures}
  \cup UNION {SUBSET g[2] : g \in {g \in StmtFeatureGroups : StmtIsA(c, g[1])}}

\* The statement of class c with the features fs.  What a visitor reads
\* without a test is always there.
MakeStmt(c, fs) ==
  [NoStmt EXCEPT
     !.ptr = SweepPtr + 1, !.class = c, !.flags = fs,
     !.range = <<L(1, 1), L(2, 1)>>,
     !.children = If(fs, "Children", <<26>>, <<>>),
     !.decls = If(fs, "Decls", <<9>>, <<>>),
     !.decl = CASE c = "BlockExpr" -> 8
                [] c = "LambdaExpr" -> 12
                [] OTHER -> If(fs, "Decl", 9, NULL),
     !.ref = IF "Ref" \in fs \/ c \notin {"DeclRefExpr", "MaterializeTemporaryExpr",
                                            "UnresolvedLookupExpr"}
             THEN 9 ELSE NULL,
     !.ref2 = If(fs, "Ref2", 4, NULL),
     !.type = If(fs, "Sugar", 32, 30),
     !.type2 = 30,
     !.str = "s", !.int = 1, !.op = "Op",
     !.bases = If(fs, "BasePath",
                  <<[name |-> "B", virtual |-> "IsVirtual" \in fs]>>, <<>>),
     !.attrs = If(fs, "Attrs",
                  <<[ptr |-> 50, kind |-> "Unused", range |-> NoRange,
                     dump |-> <<SubNode("dumpStmt", SweepPtr)>>,
                     flags |-> fs \cap {"IsInherited", "IsImplicit"}]>>, <<>>),
     !.valueKind = If(fs, "LValue", "LValue", "RValue"),
     !.objectKind = If(fs, "BitField", "BitField", "Ordinary"),
     !.name = [kind |-> "Identifier", name |-> "n"],
     !.temp = SweepPtr + 2,
     !.selector = "sel:",
     !.receiverKind = If(fs, "ClassReceiver", "Class",
                         If(fs, "SuperReceiver", "SuperInstance", "Instance")),
     !.receiver = If(fs, "Receiver", 2, NULL),
     !.privateMethod = If(fs, "PrivateMethod", 3, NULL),
     !.method = If(fs, "Method", 3, NULL),
     !.sub = IF "Sub" \in fs \/ c = "ExprWithCleanups" THEN 26 ELSE NULL,
     !.arraySize = If(fs, "ArraySize", 26, NULL),
     !.initializer = 26,
     !.getter = "get", !.setter = "set:"]

\* The statement lists of the input.
StmtListInputs == {20, 51}

\* Entry point dumpStmt(S), as the first call on a fresh exporter.
SweepStmt(S) ==
  /\ calls = 0
  /\ Commit(Called(Run(St, dumpStmt(S))))

\* clang/AST/TypeNodes.def: the concrete type classes.
TypeClasses ==
  {"Builtin", "Complex", "Pointer", "BlockPointer", "LValueReference",
   "RValueReference", "MemberPointer", "ConstantArray", "IncompleteArray",
   "VariableArray", "DependentSizedArray", "DependentSizedExtVector",
   "Vector", "ExtVector", "FunctionProto", "FunctionNoProto",
   "UnresolvedUsing", "Paren", "Typedef", "Adjusted", "Decayed",
   "TypeOfExpr", "TypeOf", "Decltype", "UnaryTransform", "Record", "Enum",
   "Elaborated", "Attributed", "TemplateTypeParm", "SubstTemplateTypeParm",
   "SubstTemplateTypeParmPack", "TemplateSpecialization", "Auto",
   "InjectedClassName", "DependentName", "DependentTemplateSpecialization",
   "PackExpansion", "ObjCObject", "ObjCInterface", "ObjCObjectPointer",
   "Atomic"}

\* What the type visitors test.
TypeFeatures == {"HasDesugaredType", "HasParamsType", "HasProtocols"}

\* The type of class c with the features fs.
MakeType(c, fs) ==
  [NoType EXCEPT
     !.ptr = SweepPtr + 3, !.class = c, !.raw = "t",
     !.desugared = If(fs, "HasDesugaredType", 30, SweepPtr + 3),
     !.child = 30, !.decl = 10,
     !.params = If(fs, "HasParamsType", <<30>>, <<>>),
     !.int = 2, !.kind = "Int",
     !.protocols = If(fs, "HasProtocols", <<2>>, <<>>)]

\* Entry point dumpType(T), as the first call on a fresh exporter.
SweepType(T) ==
  /\ calls = 0
  /\ Commit(Called(Run(St, dumpType(T))))

\* clang/AST/CommentNodes.inc: the concrete comment kinds.
CommentKinds ==
  {"FullComment", "ParagraphComment", "BlockCommandComment",
   "ParamCommandComment", "TParamCommandComment", "VerbatimBlockComment",
   "VerbatimLineComment", "VerbatimBlockLineComment", "TextComment",
   "InlineCommandComment", "HTMLStartTagComment", "HTMLEndTagComment"}

\* The comment of kind k, with a child or without.
MakeComment(k, fs) ==
  [NoComment EXCEPT
     !.ptr = SweepPtr + 4, !.kind = k, !.range = <<L(1, 1), L(1, 2)>>,
     !.children = If(fs, "Children", <<42>>, <<>>), !.text = "t"]

\* Entry point dumpComment(C), as the first call on a fresh exporter.
SweepComment(C) ==
  /\ calls = 0
  /\ Commit(Called(Run(St, dumpComment(C))))

\* dumpAttr(Att) is called by a fresh exporter.
AttrInputs ==
  {[TheAttrs[p] EXCEPT !.flags = fs] :
     p \in DOMAIN TheAttrs, fs \in SUBSET {"IsInherited", "IsImplicit"}}
SweepAttr(Att) ==
  /\ calls = 0
  /\ Commit(Called(Run(St, dumpAttr(Att))))

NextSweep ==
  \/ \E k \in DeclKinds : \E fs \in DeclFeatureSets(k) : SweepDecl(MakeDecl(k, fs))
  \/ SweepDecl(NoDecl)
  \/ \E k \in DeclKinds : \E fs \in SUBSET {"IsHidden", "Sugar"} :
       SweepDeclRef(MakeDecl(k, fs))
  \/ \E q \in NameInputs : SweepDeclRef(NamedDecl(q))
  \/ \E p \in {2, 11}, q \in {2, 11} : SweepLookups(p, q)
  \/ \E c \in StmtClasses : \E fs \in StmtFeatureSets(c) : SweepStmt(MakeStmt(c, fs))
  \/ SweepStmt(NoStmt)
  \/ \E p \in StmtListInputs : SweepStmt(Stmt(p))
  \/ \E c \in TypeClasses : \E fs \in SUBSET TypeFeatures : SweepType(MakeType(c, fs))
  \/ SweepType(NoType)
  \/ \E Att \in AttrInputs : SweepAttr(Att)
  \/ \E k \in CommentKinds : \E fs \in SUBSET {"Children"} :
       SweepComment(MakeComment(k, fs))
SpecSweep == Init /\ [][NextSweep]_vars

----------------------------------------------------------------------------
\* The scope specification: as the sweep, for the two methods that write a
\* declaration context.

\* No scope, and the scopes of the input with each combination of the two
\* flags VisitDeclContext reads.
ScopeInputs ==
  {NoDecl}
  \cup {[Decl(p) EXCEPT !.flags = @ \cup fs] :
          p \in {1, 2, 8, 11, 12, 16},
          fs \in SUBSET {"HasExternalLexicalStorage", "HasExternalVisibleStorage"}}

\* VisitDeclContext(DC) is called by a fresh exporter.
SweepDeclContext(DC) ==
  /\ calls = 0
  /\ Commit(Called(Run(St, call_VisitDeclContext(DC))))

NextScope ==
  \/ \E DC \in ScopeInputs : SweepDeclContext(DC)
  \/ \E p \in {1, 2, 11}, q \in {1, 2, 11} : SweepLookups(p, q)
SpecScope == Init /\ [][NextScope]_vars
----------------------------------------------------------------------------
\* Reading the output back: the nesting of the scopes opened on OF.

Opens(e) == e.op \in {"beginObject", "beginArray", "beginTuple", "beginVariant"}
Closes(e) == e.op \in {"endObject", "endArray", "endTuple", "endVariant"}

\* For the calls lo .. hi of OF, made from nesting depth d: the depth each
\* call is made at (seq) and the depth after the last one (end).
RECURSIVE Depths(_, _, _)
Depths(lo, hi, d) ==
  IF lo > hi THEN [seq |-> <<>>, end |-> d]
  ELSE IF lo = hi
  THEN [seq |-> <<d>>,
        end |-> IF Opens(OF[lo]) THEN d + 1
                ELSE IF Closes(OF[lo]) THEN d - 1 ELSE d]
  ELSE LET mid == (lo + hi) \div 2
           l == Depths(lo, mid, d)
           r == Depths(mid + 1, hi, l.end)
       IN [seq |-> l.seq \o r.seq, end |-> r.end]

\* The nesting depth each call of OF is made at.
DepthOf == Depths(1, Len(OF), 0).seq

\* The calls that close a scope opened at call i; the first one closes it.
ClosersOf(dep, i) ==
  {j \in i + 1 .. Len(OF) : Closes(OF[j]) /\ dep[j] = dep[i] + 1}
IsClosed(dep, i) == ClosersOf(dep, i) # {}
MatchingEnd(dep, i) ==
  CHOOSE j \in ClosersOf(dep, i) : \A m \in ClosersOf(dep, i) : j <= m

\* The calls made directly inside the scope opened at call i.
Inside(dep, i) ==
  {m \in i + 1 .. MatchingEnd(dep, i) - 1 : dep[m] = dep[i] + 1}

\* The number of top-level elements written in the tuple or array opened at i.
Elements(dep, i) == Cardinality({m \in Inside(dep, i) : OF[m].op # "tag"})
\* The number of fields written in the object opened at i.
Fields(dep, i) == Cardinality({m \in Inside(dep, i) : OF[m].op = "tag"})
\* The names of the fields written in the object opened at i.
FieldsOf(dep, i) == {OF[m].s : m \in {m \in Inside(dep, i) : OF[m].op = "tag"}}

\* The variant tags of the declaration kinds and the kind of a tag.
DeclTags == {k \o "Decl" : k \in DeclKinds}
KindOfTag(t) == CHOOSE k \in DeclKinds : k \o "Decl" = t

----------------------------------------------------------------------------
\* Properties of the tuples of declarations and statements.

\* The calls of OF that open the variant of a declaration / of a statement.
DeclVariants == {i \in 1 .. Len(OF) : OF[i].op = "beginVariant" /\ OF[i].s \in DeclTags}
StmtVariants == {i \in 1 .. Len(OF) : OF[i].op = "beginVariant" /\ OF[i].s \in StmtClasses}

\* C1: for every declaration written by dumpDecl, of whatever concrete kind
\* k (the sentinel for a null reference included), the tuple is opened with
\* tupleSizeOfDeclKind(k) and exactly that many top-level elements are
\* written in it before it is closed.
C1_DeclTupleArity ==
  LET dep == DepthOf
  IN \A i \in DeclVariants :
       /\ OF[i + 1].op = "beginTuple"
       /\ OF[i + 1].n = tupleSizeOfDeclKind(KindOfTag(OF[i].s))
       /\ IsClosed(dep, i + 1)
       /\ OF[MatchingEnd(dep, i + 1)].op = "endTuple"
       /\ Elements(dep, i + 1) = OF[i + 1].n

\* A constructor with initializers and a body has been written: a kind that
\* has no size of its own, so that its four elements come from the chain of
\* FunctionDecl.
C1_Witness ==
  /\ calls = 1
  /\ Len(OF) > 0
  /\ OF[1].op = "beginVariant" /\ OF[1].s = "CXXConstructorDecl"
  /\ OF[2].n = 4
  /\ Elements(DepthOf, 2) = 4
  /\ \E m \in 1 .. Len(OF) : OF[m].op = "tag" /\ OF[m].s = "cxx_ctor_initializers"
  /\ \E m \in 1 .. Len(OF) : OF[m].op = "tag" /\ OF[m].s = "body"

\* C2: for every statement written by dumpStmt, of whatever concrete class
\* c (the NullStmt sentinel included), the tuple is opened with
\* tupleSizeOfStmtClass(c) and exactly that many top-level elements are
\* written in it before it is closed.
C2_StmtTupleArity ==
  LET dep == DepthOf
  IN \A i \in StmtVariants :
       /\ OF[i + 1].op = "beginTuple"
       /\ OF[i + 1].n = tupleSizeOfStmtClass(OF[i].s)
       /\ IsClosed(dep, i + 1)
       /\ OF[MatchingEnd(dep, i + 1)].op = "endTuple"
       /\ Elements(dep, i + 1) = OF[i + 1].n

\* A block expression has been written: its tuple of size ExprTupleSize +
\* DeclTupleSize holds the block declaration as its last element.
C2_Witness ==
  /\ calls = 1
  /\ Len(OF) > 0
  /\ OF[1].op = "beginVariant" /\ OF[1].s = "BlockExpr"
  /\ OF[2].n = 4
  /\ Elements(DepthOf, 2) = 4
  /\ \E i \in DeclVariants : OF[i].s = "BlockDecl"

----------------------------------------------------------------------------
\* Properties of the objects.

\* The calls of OF that open an object.
Objects == {i \in 1 .. Len(OF) : OF[i].op = "beginObject"}

\* How many more fields the object opened at i declares than it holds.
Slack(dep, i) == OF[i].n - Fields(dep, i)

SlackOf(dep, i) ==
  LET F == FieldsOf(dep, i)
      label == OF[i].s
  IN CASE label = "decl_info" -> {1}
       [] label = "var_decl_info" -> {1 - B("tls_kind" \in F)}
       [] label = "obj_c_ivar_decl_info" -> {1 - B("access_control" \in F)}
       [] label = "nested_name_specifier_loc" -> {1 - B("ref" \in F)}
       [] label = "overload_expr_info" -> {1 - B("decls" \in F)}
       [] label = "lookups" ->
            {2 - B("primary_context_pointer" \in F)
               - B("has_undeserialized_decls" \in F)}
       [] label = "function_decl_info" ->
            LET s0 == 2 - B("decls_in_prototype_scope" \in F)
                        - B("parameters" \in F)
            IN IF "body" \in F THEN {s0} ELSE {s0, s0 + 1}
       [] OTHER -> {0}

----------------------------------------------------------------------------
\* Properties of dumpSourceLocation.

\* The part of OF written by the i-th dumpSourceLocation call of the run.
LocRecord(i) == SubSeq(OF, locLog[i].from, locLog[i].to)

\* The field names of a flat record, in the order written.
FieldNames(rec) == [k \in 1 .. (Len(rec) - 2) \div 2 |-> rec[2 * k].s]

HasField(rec, name) == \E k \in 1 .. Len(rec) : rec[k].op = "tag" /\ rec[k].s = name

\* The value written after the tag `name' of a flat record.
FieldValue(rec, name) ==
  LET k == CHOOSE k \in 1 .. Len(rec) : rec[k].op = "tag" /\ rec[k].s = name
  IN IF rec[k + 1].op = "string" THEN rec[k + 1].s ELSE rec[k + 1].n

\* The fields the four cases name, for a position p and a state (file, line).
ShapeFor(p, file, line) ==
  IF ~p.valid THEN <<>>
  ELSE IF p.file # file THEN <<"file", "line", "column">>
  ELSE IF p.line # line THEN <<"line", "column">>
  ELSE <<"column">>

\* The (last-file, last-line) state after the i-th call of the run.
LocStateAfter(i) ==
  IF i < Len(locLog) THEN <<locLog[i + 1].file, locLog[i + 1].line>>
  ELSE <<LastLocFilename, LastLocLine>>

\* C4: every dumpSourceLocation call writes the empty record for an invalid
\* position, {file, line, column} when the file differs from last-file,
\* {line, column} when only the line differs, {column} when neither does,
\* the record is opened with that many fields, and after a valid position
\* the state is (p.file, p.line).
C4_LocationShapes ==
  \A i \in 1 .. Len(locLog) :
    LET e == locLog[i]
        rec == LocRecord(i)
    IN /\ rec[1].op = "beginObject"
       /\ rec[Len(rec)].op = "endObject"
       /\ FieldNames(rec) = ShapeFor(e.loc, e.file, e.line)
       /\ rec[1].n = Len(ShapeFor(e.loc, e.file, e.line))
       /\ HasField(rec, "column") => FieldValue(rec, "column") = e.loc.col
       /\ HasField(rec, "line") => FieldValue(rec, "line") = e.loc.line
       /\ e.loc.valid => LocStateAfter(i) = <<e.loc.file, e.loc.line>>

\* The three shapes of a valid position have been written in one run, each
\* after the state the one before it left.
C4_Witness ==
  /\ Len(locLog) >= 3
  /\ \E i, j, k \in 1 .. Len(locLog) :
       /\ Len(FieldNames(LocRecord(i))) = 3
       /\ Len(FieldNames(LocRecord(j))) = 2
       /\ Len(FieldNames(LocRecord(k))) = 1
       /\ i < j /\ j < k
  /\ LastLocFilename = "a.c"

\* The decoder of the compressed sequence.  It starts with no file and no
\* line and fills an omitted file or line from the most recent record that
\* carried one.
NoFile == "<no file>"
NoLine == 0 - 1

RECURSIVE Decode(_, _, _)
Decode(i, file, line) ==
  IF i > Len(locLog) THEN <<>>
  ELSE LET rec == LocRecord(i)
           f == IF HasField(rec, "file") THEN FieldValue(rec, "file") ELSE file
           l == IF HasField(rec, "line") THEN FieldValue(rec, "line") ELSE line
       IN IF Len(rec) = 2
          THEN <<InvalidLoc>> \o Decode(i + 1, file, line)
          ELSE <<Loc(f, l, FieldValue(rec, "column"))>> \o Decode(i + 1, f, l)

\* A position as the output names it.
Named(p) == IF p.valid THEN Loc(normalizeSourcePath(p.file), p.line, p.col) ELSE p

\* C5: the decoder reconstructs exactly the positions passed to
\* dumpSourceLocation in this run, in order (files as the output names them).
C5_RoundTrip ==
  Decode(1, NoFile, NoLine) = [i \in 1 .. Len(locLog) |-> Named(locLog[i].loc)]

----------------------------------------------------------------------------
\* Properties of writePointer.

\* C6: in anonymized mode two writePointer calls of one run write the same
\* token if and only if they were given the same pointer.
C6_TokenIffPointer ==
  ~withPointers =>
    \A i, j \in 1 .. Len(ptrLog) :
      (ptrLog[i][2] = ptrLog[j][2]) <=> (ptrLog[i][1] = ptrLog[j][1])

C6_Witness ==
  /\ ~withPointers
  /\ Len(ptrLog) >= 3
  /\ ptrLog[1][1] # ptrLog[2][1]
  /\ ptrLog[3][1] = ptrLog[1][1]
  /\ ptrLog[3][2] = ptrLog[1][2]

\* The pointers of the first i calls of the run.
SeenBefore(i) == {ptrLog[j][1] : j \in 1 .. i - 1}

\* C7: in anonymized mode, in every run, the k-th distinct pointer given to
\* writePointer gets the token k-1, the first one "0".
C7_RunStartsAtZero ==
  ~withPointers =>
    \A i \in 1 .. Len(ptrLog) :
      ptrLog[i][1] \notin SeenBefore(i) =>
        ptrLog[i][2] = FormatD(Cardinality(SeenBefore(i)))


----------------------------------------------------------------------------
\* Properties of the traversal.

\* The declarations written by value, by reference, and the decl_info's.
ByValue == {i \in 1 .. Len(declLog) : declLog[i].how = "value"}
ByRef == {i \in 1 .. Len(declLog) : declLog[i].how = "ref"}
Infos == {i \in 1 .. Len(declLog) : declLog[i].how = "info"}

\* The run is one export: dumpDecl of the translation unit.
IsExportRun ==
  /\ calls = 1
  /\ Len(declLog) > 0
  /\ declLog[1].how = "value" /\ declLog[1].site = "entry"
  /\ declLog[1].ptr = 1

\* C8 as stated: in an export run every declaration below the root is
\* written by value only in the member listing of its scope
\* (VisitDeclContext), and no declaration is written by value twice.
C8_ByValueOnceInOwningScope ==
  IsExportRun =>
    \A i \in ByValue \ {1} :
      /\ declLog[i].site = "VisitDeclContext"
      /\ \A j \in ByValue : declLog[j].ptr = declLog[i].ptr => j = i

\* The block parameter y has been written by value by the member listing of
\* its block and again by VisitBlockDecl's parameters.
C8_Witness ==
  /\ IsExportRun
  /\ \E i, j \in ByValue :
       /\ i < j
       /\ declLog[i].ptr = 9 /\ declLog[j].ptr = 9
       /\ declLog[i].site = "VisitDeclContext"
       /\ declLog[j].site = "VisitBlockDecl.parameters"

\* C9: in one run, whatever the mode, every by-reference record of a
\* declaration carries the pointer token of the declaration's decl_info,
\* whichever of the two was written first.
C9_RefTokenIsInfoToken ==
  \A i \in ByRef : \A j \in Infos :
    declLog[i].ptr = declLog[j].ptr => declLog[i].tok = declLog[j].tok

\* In anonymized mode, after other pointers were tokenized, one declaration
\* has been written by reference before its decl_info and another one
\* after it.
C9_Witness ==
  /\ ~withPointers
  /\ \E i \in ByRef : \E j \in Infos :
       i < j /\ declLog[i].ptr = declLog[j].ptr /\ declLog[i].tok # "0"
  /\ \E i \in ByRef : \E j \in Infos :
       j < i /\ declLog[i].ptr = declLog[j].ptr /\ declLog[i].tok # "0"

\* The encoding written for the i-th null reference of the run.
NullEncoding(i) == SubSeq(OF, nullLog[i].from, nullLog[i].to)

\* C10 as stated: every encoding of a null reference is written to its end,
\* and any two of the same family in one run are the same calls on OF:
\* same variant tag, same field values, same pointer token.
C10_NullEncodingStable ==
  \A i, j \in 1 .. Len(nullLog) :
    nullLog[i].family = nullLog[j].family =>
      /\ nullLog[i].to # 0
      /\ nullLog[j].to # 0
      /\ NullEncoding(i) = NullEncoding(j)

\* What holds: the encodings of null Decl, Stmt and Type references.
C10_StableButComment ==
  \A i, j \in 1 .. Len(nullLog) :
    /\ nullLog[i].family = nullLog[j].family
    /\ nullLog[i].family # "Comment"
    => /\ nullLog[i].to # 0
       /\ nullLog[j].to # 0
       /\ NullEncoding(i) = NullEncoding(j)

\* In anonymized mode a null reference has been encoded twice, the second
\* time after a valid location was written and a new pointer tokenized.
C10_Witness ==
  /\ ~withPointers
  /\ \E i, j \in 1 .. Len(nullLog) :
       /\ i < j
       /\ nullLog[i].family = nullLog[j].family
       /\ nullLog[i].family # "Comment"
       /\ nullLog[i].to # 0 /\ nullLog[j].to # 0
       /\ \E k \in 1 .. Len(locLog) :
            /\ locLog[k].from > nullLog[i].to
            /\ locLog[k].to < nullLog[j].from
            /\ locLog[k].loc.valid
       /\ pointerCounter > 1
----------------------------------------------------------------------------
\* Null references.

\* The variant tag of the sentinel written for a null reference of a family.
SentinelTag(family) ==
  CASE family = "Decl" -> "EmptyDecl"
    [] family = "Stmt" -> "NullStmt"
    [] family = "Comment" -> "NoCommentKind"
    [] family = "Type" -> "NoneType"

\* C11 as stated: for every null Decl, Stmt, Comment or Type reference given
\* to dumpDecl, dumpStmt, dumpComment or dumpType, the sentinel variant of
\* the family is written from its opening to its closing call, and the
\* process is not ended by it.
C11_NullIsSentinelNeverFatal ==
  /\ ~aborted
  /\ \A i \in 1 .. Len(nullLog) :
       /\ nullLog[i].to # 0
       /\ OF[nullLog[i].from].op = "beginVariant"
       /\ OF[nullLog[i].from].s = SentinelTag(nullLog[i].family)
       /\ IsClosed(DepthOf, nullLog[i].from)
       /\ MatchingEnd(DepthOf, nullLog[i].from) = nullLog[i].to

\* dumpComment(nullptr) has ended the process inside the variant it opened:
\* the sentinel's kind is not a case of the visitor's switch.
C11_Witness ==
  /\ aborted
  /\ Len(nullLog) > 0
  /\ nullLog[Len(nullLog)].family = "Comment"
  /\ nullLog[Len(nullLog)].to = 0
  /\ OF[Len(OF)].op = "beginTuple"
  /\ OF[Len(OF) - 1] = Ev("beginVariant", 0, "NoCommentKind")

----------------------------------------------------------------------------
\* The traversal filter.

\* The places of declLog where the filter was asked about a declaration.
Consulted == {i \in 1 .. Len(declLog) : declLog[i].how = "filter"}

\* The declarations of the input that the filter excludes.
Excluded == {p \in DOMAIN TheDecls : ~shouldTraverseDeclFile(Decl(p))}

\* C12: the filter is asked only by VisitDeclContext, about the members of
\* the scope it lists, and where a deduplication service is configured what
\* it lists by value passed the filter just before; a declaration written by value by any other caller, or written by
\* reference, is written whatever the filter says of it: dumpDecl and
\* dumpDeclRef of an excluded declaration write it without asking.
C12_FilterOnlyInMemberListing ==
  /\ [](/\ \A k \in Consulted : declLog[k].site = "VisitDeclContext"
        /\ \A i \in ByValue :
             deduplicationService /\ declLog[i].site = "VisitDeclContext"
             => /\ declLog[i].ptr \notin Excluded
                /\ \E k \in Consulted : k < i /\ declLog[k].ptr = declLog[i].ptr)
  /\ [][\A p \in Excluded :
          /\ (p \in DeclRefInputs /\ DumpDeclRef(p))
             => /\ Len(declLog') = Len(declLog) + 1
                /\ declLog'[Len(declLog')].ptr = p
                /\ declLog'[Len(declLog')].how = "ref"
          /\ (p \in DeclInputs /\ DumpDecl(p))
             => /\ Len(declLog') > Len(declLog)
                /\ declLog'[Len(declLog) + 1].ptr = p
                /\ declLog'[Len(declLog) + 1].how = "value"
                /\ \A k \in Len(declLog) + 1 .. Len(declLog') :
                     declLog'[k].how # "filter"]_vars

\* An export run has listed the members of the translation unit: the filter
\* was asked about the excluded variable e, e is not among the members
\* written by value, and the initializer of w has written e by reference.
C12_Witness ==
  /\ IsExportRun
  /\ deduplicationService
  /\ \E k \in Consulted : declLog[k].ptr = 14
  /\ \A i \in ByValue : declLog[i].ptr # 14
  /\ \E i \in ByValue : declLog[i].ptr = 15 /\ declLog[i].site = "VisitDeclContext"
  /\ \E i \in ByRef : declLog[i].ptr = 14

----------------------------------------------------------------------------
\* The tuple-size lookups.

\* The last lookup was asked for a kind that has no case in its switch.
LookupMissed ==
  /\ lookup.kind # ""
  /\ lookup.kind \notin DeclKinds \cup StmtClasses

\* C13 as stated: when tupleSizeOfDeclKind or tupleSizeOfStmtClass is asked
\* for a kind that has no case in its switch, the process ends there: no
\* size is returned, and nothing is written to the output afterwards.
C13_MissingEntryIsFatal ==
  /\ [](LookupMissed => aborted /\ ~lookup.returned)
  /\ [][LookupMissed => OF' = OF]_vars

\* What holds: the same in a build where llvm_unreachable ends the process.
C13_FatalWithAssertions ==
  /\ [](LookupMissed /\ lookup.build = "abort" => aborted /\ ~lookup.returned)
  /\ [][LookupMissed /\ lookup.build = "abort" => OF' = OF]_vars

\* After something was written, tupleSizeOfStmtClass(Stmt::NoStmtClass) has
\* returned a size to its caller in a build without assertions.
C13_Witness ==
  /\ Len(OF) > 0
  /\ lookup.kind = "NoStmtClass"
  /\ lookup.build # "abort"
  /\ ~aborted
  /\ lookup.returned

----------------------------------------------------------------------------
\* The location state across the traversal.

\* The valid positions written before the k-th dumpSourceLocation call of
\* the run, and the last of them (0 if there is none).
ValidBefore(k) == {j \in 1 .. k - 1 : locLog[j].loc.valid}
RECURSIVE LastValidBefore(_)
LastValidBefore(k) ==
  IF k <= 1 THEN 0
  ELSE IF locLog[k - 1].loc.valid THEN k - 1
  ELSE LastValidBefore(k - 1)

\* The object that holds the source range of which the k-th position of the
\* run is a part (0 if it is part of none), and its record type.
OwnerIndex(dep, k) ==
  LET from == locLog[k].from
      I == {i \in 1 .. from - 1 :
              OF[i].op = "beginObject" /\ dep[i] = dep[from] - 2}
  IN IF I = {} THEN 0 ELSE CHOOSE i \in I : \A m \in I : m <= i
OwnerOf(dep, k) == IF OwnerIndex(dep, k) = 0 THEN "" ELSE OF[OwnerIndex(dep, k)].s

\* C14: in one run, the fields of every valid position written are those
\* that ShapeFor gives for the last valid position written before it, to
\* whatever node that one belongs and however many subtrees were entered
\* and left in between; the first valid position is compared with the state
\* the constructor left.
C14_ShapeFollowsLastValidLocation ==
  \A k \in 1 .. Len(locLog) :
    locLog[k].loc.valid =>
      LET last == IF LastValidBefore(k) = 0
                  THEN [file |-> "", line |-> UIntMax]
                  ELSE locLog[LastValidBefore(k)].loc
      IN /\ FieldNames(LocRecord(k)) = ShapeFor(locLog[k].loc, last.file, last.line)
         /\ locLog[k].file = last.file
         /\ locLog[k].line = last.line

\* In the encoding of the function f, the comment's range begins with a
\* record of the column alone because the attribute's range ended on its
\* line, and the range of the return statement begins with one because the
\* subtree of the declaration statement before it ended on its line.
C14_Witness ==
  LET dep == DepthOf
  IN /\ \E k \in 2 .. Len(locLog) :
          /\ locLog[k].loc.valid /\ locLog[k - 1].loc.valid
          /\ OwnerOf(dep, k) = "comment_info"
          /\ OwnerOf(dep, k - 1) = "attribute_info"
          /\ FieldNames(LocRecord(k)) = <<"column">>
     /\ \E k \in 2 .. Len(locLog) :
          /\ locLog[k].loc.valid /\ locLog[k - 1].loc.valid
          /\ OwnerOf(dep, k) = "stmt_info"
          /\ OF[OwnerIndex(dep, k) - 2] = Ev("beginVariant", 0, "ReturnStmt")
          /\ OF[locLog[k - 1].to + 1].op = "endTuple"
          /\ dep[locLog[k - 1].from] > dep[locLog[k].from]
          /\ FieldNames(LocRecord(k)) = <<"column">>

\* C15 as stated: the first valid position written in a run is written with
\* the three fields file, line and column, whatever its file name and line.
C15_FirstValidLocationIsFull ==
  \A k \in 1 .. Len(locLog) :
    locLog[k].loc.valid /\ ValidBefore(k) = {}
    => FieldNames(LocRecord(k)) = <<"file", "line", "column">>

\* What holds: it is, unless its file name is the empty string.
C15_FullUnlessEmptyFileName ==
  \A k \in 1 .. Len(locLog) :
    locLog[k].loc.valid /\ ValidBefore(k) = {} /\ locLog[k].loc.file # ""
    => FieldNames(LocRecord(k)) = <<"file", "line", "column">>

\* The first valid position of a run, in a file named "" (#line 1 "") at
\* line ~0U, has been written as its column alone; and one at another line
\* of that file as line and column.
C15_Witness ==
  /\ Len(locLog) > 0
  /\ locLog[1].loc.valid
  /\ locLog[1].loc.file = ""
  /\ \/ /\ locLog[1].loc.line = UIntMax
        /\ FieldNames(LocRecord(1)) = <<"column">>
     \/ /\ locLog[1].loc.line # UIntMax
        /\ FieldNames(LocRecord(1)) = <<"line", "column">>

----------------------------------------------------------------------------
\* Sibling statements on one line.

\* The first position written after call v of OF: for the variant of a
\* statement, the begin of its source range; the end is the next one.
RangeAt(v) ==
  CHOOSE k \in 1 .. Len(locLog) :
    /\ locLog[k].from > v
    /\ \A m \in 1 .. Len(locLog) : locLog[m].from > v => k <= m

\* The call after the one that closes the variant opened at v1: where the
\* statement after it in the same list starts, if there is one.
NextSibling(dep, v1) == IF IsClosed(dep, v1) THEN MatchingEnd(dep, v1) + 1 ELSE 0

\* v1 and v2 open the variants of two statements, the second written right
\* after the first in the same list; the begin and end of both source ranges
\* are valid positions on one line of one file, and the two statements begin
\* at different columns.
SameLineSiblings(v1, v2) ==
  /\ v1 \in StmtVariants /\ v2 \in StmtVariants
  /\ RangeAt(v2) < Len(locLog)
  /\ LET b1 == locLog[RangeAt(v1)].loc
         e1 == locLog[RangeAt(v1) + 1].loc
         b2 == locLog[RangeAt(v2)].loc
         e2 == locLog[RangeAt(v2) + 1].loc
     IN /\ b1.valid /\ e1.valid /\ b2.valid /\ e2.valid
        /\ {e1.file, b2.file, e2.file} = {b1.file}
        /\ {e1.line, b2.line, e2.line} = {b1.line}
        /\ b1.col # b2.col

\* C16 as stated: both records of the second statement's source range hold
\* the column alone.
C16_SecondSiblingColumnOnly ==
  LET dep == DepthOf
  IN \A v1 \in StmtVariants : \A v2 \in {NextSibling(dep, v1)} :
       SameLineSiblings(v1, v2)
       => /\ FieldNames(LocRecord(RangeAt(v2))) = <<"column">>
          /\ FieldNames(LocRecord(RangeAt(v2) + 1)) = <<"column">>

\* C16, amended: the end of the second statement's range is written as the
\* column alone; its begin is compared with the last valid position written
\* in the first statement's subtree, and is the column alone exactly when
\* that one is on the same line of the same file.
C16_SecondSiblingFollowsFirstSubtree ==
  LET dep == DepthOf
  IN \A v1 \in StmtVariants : \A v2 \in {NextSibling(dep, v1)} :
       SameLineSiblings(v1, v2)
       => LET k == RangeAt(v2)
              j == LastValidBefore(k)
          IN /\ FieldNames(LocRecord(k + 1)) = <<"column">>
             /\ j > RangeAt(v1)
             /\ locLog[j].from > v1
             /\ FieldNames(LocRecord(k))
                  = ShapeFor(locLog[k].loc, locLog[j].loc.file, locLog[j].loc.line)
             /\ (FieldNames(LocRecord(k)) = <<"column">>)
                  <=> /\ locLog[j].loc.file = locLog[k].loc.file
                      /\ locLog[j].loc.line = locLog[k].loc.line

\* The list { (ONE); ; ; } has been written: the second statement begins
\* with line and column because the literal of the first is spelled on line
\* 1, and the third with the column alone.
C16_Witness ==
  LET dep == DepthOf
  IN /\ \E v1, v2 \in StmtVariants :
          /\ v2 = NextSibling(dep, v1)
          /\ SameLineSiblings(v1, v2)
          /\ OF[v1].s = "ParenExpr"
          /\ FieldNames(LocRecord(RangeAt(v2))) = <<"line", "column">>
          /\ FieldNames(LocRecord(RangeAt(v2) + 1)) = <<"column">>
     /\ \E v1, v2 \in StmtVariants :
          /\ v2 = NextSibling(dep, v1)
          /\ SameLineSiblings(v1, v2)
          /\ OF[v1].s = "NullStmt"
          /\ FieldNames(LocRecord(RangeAt(v2))) = <<"column">>
          /\ FieldNames(LocRecord(RangeAt(v2) + 1)) = <<"column">>

----------------------------------------------------------------------------
\* The tuples of the four families.

\* The calls of OF that open the variant of a type / of a comment.
TypeVariants ==
  {i \in 1 .. Len(OF) :
     /\ OF[i].op = "beginVariant"
     /\ OF[i].s \in {c \o "Type" : c \in TypeClasses \cup {"None"}}}
CommentVariants ==
  {i \in 1 .. Len(OF) :
     /\ OF[i].op = "beginVariant"
     /\ OF[i].s \in CommentKinds \cup {"NoCommentKind"}}

\* The variant opened at i holds one tuple, closed, which declares size
\* elements and holds that many.
SizedTuple(dep, i) ==
  /\ OF[i + 1].op = "beginTuple"
  /\ IsClosed(dep, i + 1)
  /\ OF[MatchingEnd(dep, i + 1)].op = "endTuple"
  /\ OF[i + 1].n >= 0
  /\ Elements(dep, i + 1) = OF[i + 1].n

\* The variant opened at i holds one tuple, closed, which declares no size
\* and begins with the object `label'.
UnsizedTuple(dep, i, label) ==
  /\ OF[i + 1].op = "beginTuple"
  /\ IsClosed(dep, i + 1)
  /\ OF[MatchingEnd(dep, i + 1)].op = "endTuple"
  /\ OF[i + 1].n < 0
  /\ Elements(dep, i + 1) >= 1
  /\ OF[i + 2].op = "beginObject" /\ OF[i + 2].s = label

----------------------------------------------------------------------------
\* Insertions into pointerMap.

\* The pointers written so far in this run.
Written == {ptrLog[i][1] : i \in 1 .. Len(ptrLog)}

\* The declarations of which a decl_info was written so far in this run.
Encoded == {declLog[i].ptr : i \in Infos}

\* C18 as stated: writing a reference to a declaration leaves pointerMap as
\* it was; a pointer enters it only as that of a node written by value.
C18_ReferencesLeaveTableUnchanged ==
  [][\A p \in DeclRefInputs : DumpDeclRef(p) => pointerMap' = pointerMap]_vars

\* C18, amended: in anonymized mode a pointer enters pointerMap the first
\* time it is written, by value or by reference: after dumpDeclRef of a
\* declaration its pointer is in the map, with the counter's value if it
\* was not there before, and no pointer that was there has changed; the map
\* holds exactly the pointers written.  With withPointers set the map is
\* never changed.
C18_FirstWriteInserts ==
  /\ [](IF withPointers THEN pointerMap = EmptyMap
        ELSE DOMAIN pointerMap = Written)
  /\ [][\A p \in DeclRefInputs :
          DumpDeclRef(p) /\ ~withPointers
          => /\ p \in DOMAIN pointerMap'
             /\ p \notin DOMAIN pointerMap => pointerMap'[p] = pointerCounter
             /\ \A q \in DOMAIN pointerMap : pointerMap'[q] = pointerMap[q]]_vars

\* In anonymized mode the function f is in pointerMap, and so is its type,
\* after a reference to it was written and before any decl_info of it.
C18_Witness ==
  /\ ~withPointers
  /\ 3 \notin Encoded
  /\ \E i \in ByRef : declLog[i].ptr = 3
  /\ {3, 33} \subseteq DOMAIN pointerMap
  /\ pointerMap[3] = 0

----------------------------------------------------------------------------
\* Termination of an export.

\* Every scope opened on OF has been closed.
AllClosed == Depths(1, Len(OF), 0).end = 0

\* The export has ended: it returned to its caller with every scope closed,
\* or the process was ended by an llvm_unreachable.
ExportEnded ==
  \/ aborted
  \/ calls = 1 /\ pending = <<>> /\ Len(OF) > 0 /\ AllClosed

\* C19: an export of the translation unit, in which types and declarations
\* refer to each other and a variable is referred to in its own initializer,
\* comes to its end: having closed every scope it opened, or aborted.
C19_ExportEnds == <>ExportEnded

\* The export has returned after writing the typedef T, the type T that
\* refers back to it, and, inside the initializer of b, a reference to b.
C19_Witness ==
  /\ ExportEnded /\ ~aborted
  /\ declLog[1].ptr = 1
  /\ \E i \in ByValue : declLog[i].ptr = 10
  /\ \E i \in TypeVariants : OF[i].s = "TypedefType"
  /\ \E i \in ByValue : \E j \in ByRef :
       /\ i < j
       /\ declLog[i].ptr = 7 /\ declLog[j].ptr = 7
       /\ \A k \in ByValue : k > j => declLog[k].ptr # 8

\* The export was ended by an llvm_unreachable.
C19_AbortWitness == aborted /\ pending # <<>>

----------------------------------------------------------------------------
\* Attributes.

AttrTags == {k \o "Attr" : k \in AttrKinds}
AttrVariants ==
  {i \in 1 .. Len(OF) : OF[i].op = "beginVariant" /\ OF[i].s \in AttrTags}

\* The calls made from the opening of the scope at call i to its closing.
Within(dep, i) == i + 1 .. MatchingEnd(dep, i) - 1

\* The array of the field `parameters' in the attribute variant opened at
\* call i.
ParametersOf(dep, i) ==
  CHOOSE a \in Within(dep, i) :
    OF[a].op = "beginArray" /\ OF[a - 1] = Ev("tag", 0, "parameters")

\* dumpAttr was called for the attribute at address p, and has returned.
AttrDumped(p) ==
  /\ calls = 1
  /\ OF # <<>>
  /\ 1 \in AttrVariants
  /\ ptrLog[1][1] = p

\* The strings written in the array opened at call a, in order.
StringsOf(dep, a) ==
  LET idx == Inside(dep, a)
      nth(j) == CHOOSE m \in idx : Cardinality({x \in idx : x < m}) = j - 1
  IN [j \in 1 .. Cardinality(idx) |-> OF[nth(j)]]

\* C20: dumpAttr writes one variant, tagged with the kind of the attribute,
\* that holds the token of its address, its source range, its parameters and
\* its flags; a parameter that is a declaration, a statement or a type is the
\* string "?", and no other node is encoded: no variant is opened inside the
\* one of the attribute, no declaration is written or referred to, and no
\* other address is written.
C20_AttrWritesPlaceholders ==
  /\ \A i \in AttrVariants :
       \A dep \in {DepthOf} :
         IsClosed(dep, i) =>
           /\ \A m \in Within(dep, i) :
                /\ OF[m].op \notin {"beginVariant", "simpleVariant"}
                /\ OF[m].op = "beginObject" =>
                     OF[m].s \in {"attribute_info", "source_location"}
           /\ OF[i + 1].op = "beginObject" /\ OF[i + 1].s = "attribute_info"
           /\ MatchingEnd(dep, i + 1) = MatchingEnd(dep, i) - 1
           /\ FieldsOf(dep, i + 1) \subseteq
                {"pointer", "source_range", "parameters", "is_inherited",
                 "is_implicit"}
           /\ {"pointer", "source_range", "parameters"} \subseteq FieldsOf(dep, i + 1)
           /\ \A m \in Inside(dep, ParametersOf(dep, i)) : OF[m].op = "string"
  /\ \A p \in DOMAIN TheAttrs :
       AttrDumped(p) =>
         \A dep \in {DepthOf} :
           /\ OF[1].s = TheAttrs[p].kind \o "Attr"
           /\ MatchingEnd(dep, 1) = Len(OF)
           /\ OF[4] = Ev("string", 0, ptrLog[1][2])
           /\ Len(ptrLog) = 1 /\ declLog = <<>> /\ nullLog = <<>>
           /\ Len(locLog) = 2
           /\ \A strs \in {StringsOf(dep, ParametersOf(dep, 1))} :
                /\ Len(strs) = Len(TheAttrs[p].dump)
                /\ OF[ParametersOf(dep, 1)].n = Len(strs)
                /\ \A j \in 1 .. Len(strs) :
                     strs[j].s = IF TheAttrs[p].dump[j].op = "<<"
                                 THEN TheAttrs[p].dump[j].str ELSE "?"
           /\ OF[2].n = Fields(dep, 2)

\* dumpAttr has returned for alignas(1): its parameters are the string that
\* AttrDump.inc streams and the placeholder of the statement.
C20_Witness ==
  /\ AttrDumped(72)
  /\ \E a \in 1 .. Len(OF) - 3 :
       SubSeq(OF, a, a + 3) = <<Ev("beginArray", 2, ""), Ev("string", 0, "alignas"),
                                Ev("string", 0, "?"), Ev("endArray", 0, "")>>

----------------------------------------------------------------------------
\* The order of the elements of a tuple.

\* The j-th element written directly inside the scope opened at call t.
ElementAt(dep, t, j) ==
  CHOOSE m \in Inside(dep, t) :
    Cardinality({x \in Inside(dep, t) : x < m}) = j - 1

\* C21: the fields of a base come first.  In the tuple of every declaration,
\* of whatever kind, the first element is the decl_info object that VisitDecl
\* writes; in the tuple of every statement or expression, of whatever class,
\* the first element is the stmt_info object and the second the list of
\* children that VisitStmt writes.  Kinds that have no visitor of their own
\* are included.
C21_BaseFieldsFirst ==
  \A dep \in {DepthOf} :
    /\ \A i \in DeclVariants :
         IsClosed(dep, i + 1) =>
           /\ Elements(dep, i + 1) >= 1
           /\ ElementAt(dep, i + 1, 1) = i + 2
           /\ OF[i + 2].op = "beginObject" /\ OF[i + 2].s = "decl_info"
    /\ \A i \in StmtVariants :
         IsClosed(dep, i + 1) =>
           /\ Elements(dep, i + 1) >= 2
           /\ ElementAt(dep, i + 1, 1) = i + 2
           /\ OF[i + 2].op = "beginObject" /\ OF[i + 2].s = "stmt_info"
           /\ ElementAt(dep, i + 1, 2) = MatchingEnd(dep, i + 2) + 1
           /\ OF[ElementAt(dep, i + 1, 2)].op = "beginArray"

\* A constructor has been written, a kind with no visitor of its own: its
\* decl_info comes first and the name that VisitNamedDecl adds comes after it.
C21_Witness ==
  /\ calls = 1
  /\ Len(OF) > 0
  /\ OF[1].op = "beginVariant" /\ OF[1].s = "CXXConstructorDecl"
  /\ OF[3].op = "beginObject" /\ OF[3].s = "decl_info"
  /\ \E dep \in {DepthOf} :
       /\ Elements(dep, 2) = 4
       /\ OF[ElementAt(dep, 2, 2)].s = "named_decl_info"

----------------------------------------------------------------------------
\* Redeclarations.

\* The decl_info objects on OF; the k-th of them belongs to the k-th
\* declaration that VisitDecl was called for.
InfoObjects ==
  {m \in 1 .. Len(OF) : OF[m].op = "beginObject" /\ OF[m].s = "decl_info"}
InfoObjectOf(j) ==
  CHOOSE m \in InfoObjects :
    Cardinality({x \in InfoObjects : x <= m}) = Cardinality({x \in Infos : x <= j})

\* The decl_info's of declarations of the input.
InputInfos == {j \in Infos : declLog[j].ptr \in DOMAIN TheDecls}

\* The declaration that D redeclares: its previous declaration, or its first
\* declaration where that is another one.
Redeclared(D) == IF D.previous # NULL THEN D.previous ELSE D.first

\* C22: the decl_info of a declaration holds a field previous_decl exactly
\* when the declaration has a previous declaration (or a first declaration
\* that is another one), and the field carries the pointer token of that
\* declaration.
C22_PreviousDeclWritten ==
  \A dep \in {DepthOf} :
    \A j \in InputInfos :
      \A o \in {InfoObjectOf(j)} :
        /\ ("previous_decl" \in FieldsOf(dep, o))
             <=> Redeclared(Decl(declLog[j].ptr)) # NULL
        /\ \A t \in Inside(dep, o) :
             OF[t] = Ev("tag", 0, "previous_decl") =>
               /\ OF[t + 1].op = "beginVariant"
               /\ OF[t + 1].s \in {"Previous", "First"}
               /\ \E q \in 1 .. Len(ptrLog) :
                    ptrLog[q] = <<Redeclared(Decl(declLog[j].ptr)), OF[t + 2].s>>

\* The second namespace N { } has been written in an export of the
\* translation unit: it redeclares the first, and its decl_info is closed.
C22_Witness ==
  /\ IsExportRun
  /\ \E j \in InputInfos :
       /\ declLog[j].ptr = 11
       /\ Decl(11).previous = 2
       /\ IsClosed(DepthOf, InfoObjectOf(j))
       /\ "source_range" \in FieldsOf(DepthOf, InfoObjectOf(j))

----------------------------------------------------------------------------
\* The member listing of a scope.

\* The places of declLog where VisitDeclContext starts on a scope.
Scopes == {j \in 1 .. Len(declLog) : declLog[j].how = "scope"}

\* The members of the scope DC that pass the filter, in declaration order.
RECURSIVE Passing(_)
Passing(ptrs) ==
  IF ptrs = <<>> THEN <<>>
  ELSE IF deduplicationService /\ "IsExcluded" \in Decl(Head(ptrs)).flags
  THEN Passing(Tail(ptrs))
  ELSE <<Head(ptrs)>> \o Passing(Tail(ptrs))

\* C23: VisitDeclContext opens the array of members with the number of the
\* direct members that pass the filter and writes exactly those members by
\* value, in declaration order; with no deduplication service every member is
\* listed; for no scope it writes an empty array and an empty object.  A
\* listing is complete unless the process stopped inside one of its members.
C23_MemberListing ==
  \A dep \in {DepthOf} :
    \A j \in Scopes :
      \A a \in {declLog[j].at} :
        /\ a <= Len(OF) /\ OF[a].op = "beginArray"
        /\ ~aborted => IsClosed(dep, a)
        /\ declLog[j].ptr = NULL =>
             /\ a + 3 <= Len(OF)
             /\ SubSeq(OF, a, a + 3)
                  = <<Ev("beginArray", 0, ""), Ev("endArray", 0, ""),
                      Ev("beginObject", 0, "decl_context_info"),
                      Ev("endObject", 0, "")>>
        /\ declLog[j].ptr \in DOMAIN TheDecls =>
             \A listed \in {Passing(Decl(declLog[j].ptr).members)} :
               /\ OF[a].n = Len(listed)
               /\ IsClosed(dep, a) =>
                    /\ Elements(dep, a) = Len(listed)
                    /\ \A k \in 1 .. Len(listed) :
                         /\ OF[ElementAt(dep, a, k)].op = "beginVariant"
                         /\ \E i \in ByValue :
                              /\ declLog[i].at = ElementAt(dep, a, k)
                              /\ declLog[i].ptr = listed[k]
                              /\ declLog[i].site = "VisitDeclContext"
               /\ ~deduplicationService =>
                    listed = Decl(declLog[j].ptr).members

\* VisitDeclContext has returned for the translation unit with a
\* deduplication service configured: five of its six members are listed, the
\* variable w right after the second namespace N, and e is not.
C23_Witness ==
  /\ calls = 1
  /\ ~aborted
  /\ deduplicationService
  /\ Len(declLog) > 0
  /\ declLog[1] = [ptr |-> 1, how |-> "scope", site |-> "VisitDeclContext",
                   at |-> 1, tok |-> ""]
  /\ OF[1] = Ev("beginArray", 5, "")
  /\ Len(Decl(1).members) = 6
  /\ \E i \in ByValue : declLog[i].ptr = 15 /\ declLog[i].site = "VisitDeclContext"
  /\ \A i \in ByValue : declLog[i].ptr # 14

\* VisitDeclContext has returned for no scope.
C23_NullWitness ==
  /\ calls = 1
  /\ Len(declLog) = 1
  /\ declLog[1].how = "scope" /\ declLog[1].ptr = NULL
  /\ Len(OF) = 4

----------------------------------------------------------------------------
\* References to declarations.

\* The decl_ref objects on OF.
DeclRefObjects ==
  {o \in 1 .. Len(OF) : OF[o].op = "beginObject" /\ OF[o].s = "decl_ref"}

\* The reference logged at i, to a declaration of the input: its object
\* opens five calls before the call that follows its identity token.
InputRefs == {i \in ByRef : declLog[i].ptr \in DOMAIN TheDecls}
RefObjectOf(i) == declLog[i].at - 5

\* C24: dumpDeclRef writes a record that always holds the kind and the
\* identity token, the name exactly when the declaration is a named
\* declaration, the qualified type exactly when it is a value declaration,
\* and is_hidden only when it is named and hidden; the size it declares,
\* 2 + named + value + hidden, is the number of fields it writes.
C24_DeclRefRecord ==
  \A dep \in {DepthOf} :
    /\ \A o \in DeclRefObjects :
         IsClosed(dep, o) =>
           /\ OF[o + 1] = Ev("tag", 0, "kind")
           /\ OF[o + 2].op = "simpleVariant" /\ OF[o + 2].s \in DeclKinds
           /\ OF[o + 3] = Ev("tag", 0, "decl_pointer")
           /\ \A fields \in {FieldsOf(dep, o)} :
                /\ {"kind", "decl_pointer"} \subseteq fields
                /\ fields \subseteq
                     {"kind", "decl_pointer", "name", "is_hidden", "qual_type"}
                /\ "name" \in fields <=> DeclIsA(OF[o + 2].s, "Named")
                /\ "qual_type" \in fields <=> DeclIsA(OF[o + 2].s, "Value")
                /\ "is_hidden" \in fields => DeclIsA(OF[o + 2].s, "Named")
                /\ Fields(dep, o) = Cardinality(fields)
                /\ OF[o].n = Fields(dep, o)
    /\ \A i \in InputRefs :
         \A o \in {RefObjectOf(i)}, D \in {Decl(declLog[i].ptr)} :
           IsClosed(dep, o) =>
             /\ o \in DeclRefObjects
             /\ OF[o + 2].s = D.kind
             /\ "is_hidden" \in FieldsOf(dep, o)
                  <=> (DeclIsA(D.kind, "Named") /\ "IsHidden" \in D.flags)
             /\ OF[o].n = 2 + B(DeclIsA(D.kind, "Named"))
                            + B(DeclIsA(D.kind, "Value"))
                            + B(DeclIsA(D.kind, "Named") /\ "IsHidden" \in D.flags)

\* A reference to the hidden parameter y, a named value declaration, has been
\* written: it has all five fields.
C24_Witness ==
  /\ calls = 1
  /\ \E dep \in {DepthOf} :
       \E i \in InputRefs :
         /\ declLog[i].ptr = 9
         /\ IsClosed(dep, RefObjectOf(i))
         /\ FieldsOf(dep, RefObjectOf(i)) =
              {"kind", "decl_pointer", "name", "is_hidden", "qual_type"}
         /\ OF[RefObjectOf(i)].n = 5

\* A reference to a declaration that is not named has been written: it has
\* the two fields every reference has.
C24_UnnamedWitness ==
  /\ calls = 1
  /\ Len(OF) > 0
  /\ OF[1].op = "beginObject" /\ OF[1].s = "decl_ref" /\ OF[1].n = 2
  /\ OF[Len(OF)].op = "endObject"

----------------------------------------------------------------------------
\* The declared size of an object as a bound.

\* The end of the scope opened at call i: its closing call, or the end of
\* the output while it is still open.
EndOf(dep, i) == IF IsClosed(dep, i) THEN MatchingEnd(dep, i) ELSE Len(OF) + 1

\* The fields written so far in the object opened at i, closed or not.
WrittenIn(dep, i) ==
  Cardinality({m \in i + 1 .. EndOf(dep, i) - 1 :
                 dep[m] = dep[i] + 1 /\ OF[m].op = "tag"})

\* The record types whose declared size the code computes as a maximum.
SuboptimalRecords ==
  {"decl_info", "function_decl_info", "var_decl_info", "obj_c_ivar_decl_info",
   "overload_expr_info", "lookups", "nested_name_specifier_loc"}

\* C25: for every object opened on OF, of whatever record type and with
\* whatever optional fields, the number of fields written in it is at most
\* the size it was opened with.
C25_WrittenWithinDeclared ==
  \A dep \in {DepthOf} :
    \A i \in Objects : WrittenIn(dep, i) <= OF[i].n

\* An overloaded expression with declarations has been written: its
\* overload_expr_info, one of the seven record types, holds both of its
\* fields and so reaches the size it declares.
C25_Witness ==
  /\ calls = 1
  /\ \E dep \in {DepthOf} :
       \E i \in Objects :
         /\ OF[i].s = "overload_expr_info"
         /\ IsClosed(dep, i)
         /\ FieldsOf(dep, i) = {"decls", "name"}
         /\ WrittenIn(dep, i) = OF[i].n

\* An overloaded expression without declarations has been written: its
\* overload_expr_info holds one field fewer than it declares.
C25_SlackWitness ==
  /\ calls = 1
  /\ \E dep \in {DepthOf} :
       \E i \in Objects :
         /\ OF[i].s = "overload_expr_info"
         /\ IsClosed(dep, i)
         /\ FieldsOf(dep, i) = {"name"}
         /\ WrittenIn(dep, i) < OF[i].n

----------------------------------------------------------------------------
\* The pointer table.

\* The values pointerMap holds.
Tokens == {pointerMap[p] : p \in DOMAIN pointerMap}

\* pointerCounter counts the entries of pointerMap, whose values are the
\* integers below it, each held by one pointer.
TableIsDense ==
  /\ pointerCounter = Cardinality(DOMAIN pointerMap)
  /\ Tokens = 0 .. pointerCounter - 1
  /\ \A p \in DOMAIN pointerMap, q \in DOMAIN pointerMap :
       pointerMap[p] = pointerMap[q] => p = q

\* A step that is a writePointer call in raw mode.
RawCall == withPointers /\ Len(ptrLog') = Len(ptrLog) + 1

\* C26: whatever writePointer calls have been made, in raw and in anonymized
\* mode, pointerCounter is the number of entries of pointerMap and the values
\* of pointerMap are exactly 0 .. pointerCounter - 1, each held by one
\* pointer; and a call in raw mode changes neither of the two.
C26_TableIsDense ==
  /\ TableIsDense
  /\ [][/\ TableIsDense'
        /\ RawCall => (pointerMap' = pointerMap /\ pointerCounter' = pointerCounter)
       ]_vars

\* An exporter in raw mode has written a pointer that has no token, in a
\* process where an earlier exporter gave tokens to two pointers.
C26_Witness ==
  /\ withPointers
  /\ Len(ptrLog) >= 1
  /\ pointerCounter = 2
  /\ Cardinality(DOMAIN pointerMap) = 2
  /\ ptrLog[1][1] \notin DOMAIN pointerMap

----------------------------------------------------------------------------
\* Invalid positions.

\* The calls of the run that encode an invalid position.
InvalidCalls == {i \in 1 .. Len(locLog) : ~locLog[i].loc.valid}

\* The valid positions of the run that follow an invalid one and have a
\* valid one before it.
ValidAfterInvalid ==
  {k \in 2 .. Len(locLog) :
     /\ locLog[k].loc.valid
     /\ ~locLog[k - 1].loc.valid
     /\ LastValidBefore(k) # 0}

\* C27: a call that encodes an invalid position writes the empty record and
\* leaves (last-file, last-line) as it found them; so the record of the next
\* valid position has the shape that the last valid position written before
\* the invalid one gives it.
C27_InvalidLeavesState ==
  /\ \A i \in InvalidCalls :
       /\ LocRecord(i) = <<Ev("beginObject", 0, "source_location"),
                           Ev("endObject", 0, "")>>
       /\ LocStateAfter(i) = <<locLog[i].file, locLog[i].line>>
  /\ \A k \in ValidAfterInvalid :
       \A j \in {LastValidBefore(k)} :
         /\ <<locLog[k].file, locLog[k].line>>
              = <<locLog[j].loc.file, locLog[j].loc.line>>
         /\ FieldNames(LocRecord(k))
              = ShapeFor(locLog[k].loc, locLog[j].loc.file, locLog[j].loc.line)

\* A position of a.c, an invalid position and a position on the same line of
\* a.c have been written: the third record holds the column alone.
C27_Witness ==
  /\ Len(locLog) = 3
  /\ locLog[1].loc.valid /\ locLog[1].loc.file = "a.c"
  /\ 2 \in InvalidCalls
  /\ 3 \in ValidAfterInvalid
  /\ locLog[3].loc.file = "a.c" /\ locLog[3].loc.line = locLog[1].loc.line
  /\ FieldNames(LocRecord(3)) = <<"column">>

----------------------------------------------------------------------------
\* Types.

\* The calls of OF that open the variant of a node of any family.
NodeVariants ==
  DeclVariants \cup StmtVariants \cup TypeVariants \cup CommentVariants

\* The translation units whose encoding is complete, and the last element of
\* the tuple of one.
UnitsWritten ==
  {t \in DeclVariants : OF[t].s = "TranslationUnitDecl"
                          /\ IsClosed(DepthOf, t) /\ IsClosed(DepthOf, t + 1)}
LastElement(dep, t) == ElementAt(dep, t, Elements(dep, t))

\* The tag dumpType gives the type at address p.
TypeTag(p) == (IF p = NULL THEN "None" ELSE Type(p).class) \o "Type"

\* C28: types are encoded flat.  Apart from an entry-point call of dumpType,
\* a type is encoded only as an element of the list that ends the tuple of a
\* translation unit; that list holds one type for every entry of the list
\* types that the constructor filled, in its order, the last of them the null
\* entry, written as NoneType; and nothing inside the encoding of a type is
\* the encoding of a type, a declaration, a statement or a comment.
C28_TypesAreFlat ==
  \A dep \in {DepthOf} :
    /\ \A t \in UnitsWritten :
         \A a \in {LastElement(dep, t + 1)} :
           /\ OF[a] = Ev("beginArray", Len(types), "")
           /\ Elements(dep, a) = Len(types)
           /\ \A k \in 1 .. Len(types) :
                /\ OF[ElementAt(dep, a, k)].op = "beginVariant"
                /\ OF[ElementAt(dep, a, k)].s = TypeTag(types[k])
           /\ OF[ElementAt(dep, a, Len(types))].s = "NoneType"
    /\ \A i \in TypeVariants :
         \/ dep[i] = 0
         \/ \E t \in UnitsWritten : i \in Inside(dep, LastElement(dep, t + 1))
         \/ \E t \in DeclVariants :
              /\ OF[t].s = "TranslationUnitDecl" /\ ~IsClosed(dep, t)
              /\ t < i
    /\ \A i \in TypeVariants :
         \A m \in i + 1 .. EndOf(dep, i) - 1 : m \notin NodeVariants

\* A translation unit has been written: the list that ends its tuple holds
\* the five types of the exporter, the typedef type and the function type
\* among them, and NoneType last.
C28_Witness ==
  /\ calls = 1
  /\ UnitsWritten # {}
  /\ Cardinality(TypeVariants) = Len(types)
  /\ \E i \in TypeVariants : OF[i].s = "TypedefType"
  /\ \E i \in TypeVariants : OF[i].s = "FunctionProtoType"
  /\ \E i \in TypeVariants :
       OF[i].s = "NoneType" /\ \A j \in TypeVariants : j <= i

----------------------------------------------------------------------------
\* Tokens and addresses.

\* The pointers and the tokens of the writePointer calls of the run.
PointersOfRun == [i \in 1 .. Len(ptrLog) |-> ptrLog[i][1]]
TokensOfRun == [i \in 1 .. Len(ptrLog) |-> ptrLog[i][2]]

\* The state after dumpPointer has been called for each of ptrs, in order,
\* from the state st.
RECURSIVE DumpAll(_, _)
DumpAll(st, ptrs) ==
  IF ptrs = <<>> THEN st ELSE DumpAll(dumpPointer(st, Head(ptrs)), Tail(ptrs))

\* The tokens an exporter in anonymized mode writes for ptrs in a process of
\* its own.
TokensInFreshProcess(ptrs) ==
  LET st == DumpAll(Constructed(FALSE, EmptyMap, 0), ptrs)
  IN [i \in 1 .. Len(st.ptrLog) |-> st.ptrLog[i][2]]

\* The ways to give other addresses to the nodes: the same nodes at
\* different addresses, different nodes at different addresses.
Renamings == Permutations(Pointers)

\* C29: in anonymized mode the tokens depend on the order in which the
\* identities are first seen and not on the addresses.  The tokens written
\* by the first exporter of a process are the tokens that an exporter in a
\* process of its own writes for the same calls with every node at another
\* address.
C29_TokensIgnoreAddresses ==
  (freshProcess /\ ~withPointers) =>
    \A pi \in Renamings :
      TokensInFreshProcess([i \in 1 .. Len(ptrLog) |-> pi[PointersOfRun[i]]])
        = TokensOfRun

\* The first exporter of a process, in anonymized mode, has written a
\* pointer, another one and the first again: the tokens are "0", "1", "0"
\* whatever the two addresses are.
C29_Witness ==
  /\ freshProcess /\ ~withPointers
  /\ Len(ptrLog) = 3
  /\ ptrLog[1][1] = 3 /\ ptrLog[2][1] = 1 /\ ptrLog[3][1] = 3
  /\ TokensOfRun = <<"0", "1", "0">>

----------------------------------------------------------------------------
\* Qualified names.

\* The characters of a name as one string.
RECURSIVE Flat(_)
Flat(q) == IF q = <<>> THEN "" ELSE Head(q) \o Flat(Tail(q))

\* The strings joined with "::".
RECURSIVE Join(_)
Join(strs) ==
  IF Len(strs) = 0 THEN ""
  ELSE IF Len(strs) = 1 THEN strs[1]
  ELSE strs[1] \o "::" \o Join(Tail(strs))

Reversed(strs) == [i \in 1 .. Len(strs) |-> strs[Len(strs) + 1 - i]]

\* The number of colons that end just before position i of q.
ColonsBefore(q, i) ==
  i - 1 - CHOOSE j \in 0 .. i - 1 :
            /\ j = 0 \/ q[j] # ":"
            /\ \A m \in j + 1 .. i - 1 : q[m] = ":"

\* The positions where a "::" of q starts, read from the left: two colons
\* after an even number of colons.
Separators(q) ==
  {i \in 1 .. Len(q) - 1 :
     q[i] = ":" /\ q[i + 1] = ":" /\ ColonsBefore(q, i) % 2 = 0}

\* The k-th segment of q: what lies between the "::" before it and the "::"
\* after it.
Segment(q, k) ==
  LET before == {i \in Separators(q) :
                   Cardinality({j \in Separators(q) : j <= i}) = k - 1}
      after == {i \in Separators(q) :
                  Cardinality({j \in Separators(q) : j <= i}) = k}
      from == IF before = {} THEN 1 ELSE (CHOOSE i \in before : TRUE) + 2
      to == IF after = {} THEN Len(q) ELSE (CHOOSE i \in after : TRUE) - 1
  IN Flat(SubSeq(q, from, to))
Segments(q) == [k \in 1 .. Cardinality(Separators(q)) + 1 |-> Segment(q, k)]

\* The list written after the tag qual_name, the last one on OF, and the
\* strings in it.
QualNameArray ==
  1 + CHOOSE t \in 1 .. Len(OF) :
        /\ OF[t] = Ev("tag", 0, "qual_name")
        /\ \A u \in t + 1 .. Len(OF) : OF[u] # OF[t]
QualNameList ==
  [i \in 1 .. OF[QualNameArray].n |-> OF[QualNameArray + i].s]

\* dumpName has written the qualified name q.
NameWritten(q) ==
  /\ OF[QualNameArray].op = "beginArray"
  /\ OF[QualNameArray].n = Cardinality(Separators(q)) + 1
  /\ \A i \in 1 .. OF[QualNameArray].n : OF[QualNameArray + i].op = "string"
  /\ OF[QualNameArray + OF[QualNameArray].n + 1].op = "endArray"
  /\ QualNameList = Reversed(Segments(q))
  /\ Separators(q) = {} => QualNameList = <<Flat(q)>>
  /\ Join(Reversed(QualNameList)) = Flat(q)

\* OF holds a reference to a namespace and nothing else.
IsReferenceToNamespace ==
  /\ Len(OF) > 3
  /\ OF[1].op = "beginObject" /\ OF[1].s = "decl_ref"
  /\ OF[3] = Ev("simpleVariant", 0, "Namespace")

\* C30: dumpName writes qual_name as the segments of the qualified name,
\* split at every "::", the innermost first; the list is opened with the
\* number of segments; a name without "::" gives a list of one element; and
\* the list, reversed and joined with "::", is the qualified name.
C30_QualNameRoundTrip ==
  [][\A q \in NameInputs :
       (IsReferenceToNamespace' /\ SweepDeclRef(NamedDecl(q))) => NameWritten(q)'
    ]_vars

\* The name a:::a has been written: its list is ":a", "a".
C30_Witness ==
  /\ calls = 1
  /\ IsReferenceToNamespace
  /\ QualNameList = <<":a", "a">>
  /\ NameWritten(<<"a", ":", ":", ":", "a">>)
=============================================================================
